---- MODULE Spec2Model ----
(***************************************************************************)
(* A model of next-llm-ready: the analytics route handler with its rate    *)
(* limiter and storage log, the llms.txt / markdown / ?llm=1 handlers, the *)
(* nested table-of-contents builder, the active-heading tracker (useTOC)   *)
(* and the clipboard copy path (copyToClipboard, useLLMCopy, CopyButton).  *)
(* Each component has its own specification over its own variables; the    *)
(* variables of the other components stay at their initial values.         *)
(***************************************************************************)
EXTENDS Integers, Sequences, FiniteSets, Bags, TLC

VARIABLES
  \* analytics handler (createAnalyticsHandler)
  options,        \* AnalyticsHandlerOptions: rateLimit (0 = not set), cors
  now,            \* Date.now(), in milliseconds
  requestCounts,  \* Map<clientIp, {count, resetAt}>
  events,         \* the storage adapter's log
  inflight,       \* bag of the handler invocations suspended at an await
  lastResp,       \* the response most recently returned, with its request
  nReq,           \* POST requests received so far
  firstPost,      \* per client key: arrival time of its first POST (-1: none)
  postIdx,        \* per client key: POSTs that arrived in that first window
  admitted,       \* per client key: those of them the limiter let through
  admittedAt      \* history kept by SpecLimiter: per client key, the arrival times of
                  \* the POSTs the limiter let through

analyticsVars ==
  <<options, now, requestCounts, events, inflight, lastResp, nReq, firstPost, postIdx,
    admitted, admittedAt>>

VARIABLES
  \* llms.txt handlers, markdown handler, ?llm=1 middleware (they keep no state)
  httpResp,       \* the response being returned, with the request it answers
  \* useAnalytics, on the client
  sendBeacon,     \* whether the browser has navigator.sendBeacon
  pendingRef,     \* pendingRef.current: the keys of the calls under way
  fetching,       \* the calls suspended at await fetch(...)
  delivered,      \* the events handed to sendBeacon or fetch, in order
  nTracks,        \* calls of track so far
  lastTrack       \* the step of track that ran last

handlerVars == <<httpResp, sendBeacon, pendingRef, fetching, delivered, nTracks, lastTrack>>

VARIABLES
  \* buildNestedTOC, one step per iteration of its for loop
  headings,       \* the flat list: the level of each heading, in document order
  pos,            \* index of the heading the loop handles next
  stack,          \* the stack of items, an item being the index of its heading
  children,       \* children[i]: the children array of item i
  result          \* the array of roots

tocVars == <<headings, pos, stack, children, result>>

VARIABLES
  \* useTOC: the active-heading tracker and scrollTo
  activeId,       \* the activeId state, Null before any heading is active
  scrolled,       \* the scrollIntoView requests made so far
  history,        \* the fragments pushed with window.history.pushState
  lastOp,         \* the observer callback, scrollTo call or hook step that ran last
  caller,         \* whether the component passes levels ("memoized") or not ("default")
  container,      \* the ids of the headings in the container
  tracked,        \* the headings state
  rendered,       \* the headings state as of the last render
  observers,      \* the observers that are connected, each with its targets
  phase,          \* where React is: mount, render, cleanup, extract, observe, idle, unmounted
  changed,        \* the dependencies that changed since the last render
  due             \* the effects this commit runs

trackerVars ==
  <<activeId, scrolled, history, lastOp, caller, container, tracked, rendered, observers, phase,
    changed, due>>

VARIABLES
  \* useLLMCopy in CopyButton, with copyToClipboard
  props,          \* which of onCopy, onError, onAnalytics the page supplies
  isCopying, isSuccess, error, showToast,
  resetTimers,    \* pending setTimeout(() => setIsSuccess(false), 2000)
  toastTimers,    \* pending setTimeout(() => setShowToast(false), toastDuration)
  calls,          \* the copy() calls suspended at an await
  nCopies,        \* copy() calls made so far
  lastCopy        \* the copy() call that settled last, with what it did

copyVars ==
  <<props, isCopying, isSuccess, error, showToast, resetTimers, toastTimers, calls,
    nCopies, lastCopy>>

----------------------------------------------------------------------------
(* Bounds of the model *)

MaxPosts == 2
MaxInFlight == 2
MaxWindowPosts == 4

(* Program constants *)

windowMs == 60000
MsPerSecond == 1000

\* The instants at which the clock is read: the start of a window, inside it
\* less than a second before its reset timestamp, at that timestamp, after it.
Instants == {0, 59001, 60000, 60001}

\* The handler configurations checked: no limiter, and limits of 1 and 2.
HandlerOptions ==
  {[rateLimit |-> 0, cors |-> TRUE],
   [rateLimit |-> 1, cors |-> FALSE],
   [rateLimit |-> 2, cors |-> TRUE]}

\* A field, a header or a parameter that is absent.
Undef == "(undefined)"

\* request.headers.get('x-forwarded-for')
ForwardedFor == {"10.0.0.1", Undef}
ClientKeys == {"10.0.0.1", "unknown"}

\* Exceptions a caller-supplied callback or the platform may raise.
Errors == {"ECONNRESET", "disk full"}
NoError == "(no error)"

----------------------------------------------------------------------------
(* Request bodies.  A body is what request.json() yields: a rejection for  *)
(* text that is not JSON, the value null, or an object.  Undef stands for  *)
(* a field the object does not carry; NoTimestamp for a missing timestamp. *)

NoTimestamp == -1
ForgedTimestamp == 7

BodyEmpty ==
  [kind |-> "object", action |-> Undef, contentId |-> Undef,
   url |-> Undef, timestamp |-> NoTimestamp, metadata |-> Undef]

Bodies ==
  {BodyEmpty,
   [BodyEmpty EXCEPT !.kind = "null"],
   [BodyEmpty EXCEPT !.kind = "malformed"],
   [kind |-> "object", action |-> "purchase", contentId |-> "post-1",
    url |-> "https://site.example/a", timestamp |-> ForgedTimestamp, metadata |-> "m1"]}

\* a || b on strings: the falsy values here are undefined and "".
OrElse(a, b) == IF a = Undef \/ a = "" THEN b ELSE a

NoEvent ==
  [action |-> "(none)", contentId |-> Undef, url |-> Undef,
   timestamp |-> NoTimestamp, metadata |-> Undef]

\* BuildEvent with the timestamp taken from the body when it carries one.
BuildEventTrustingBody(body, referer, t) ==
  [action |-> OrElse(body.action, "copy"),
   contentId |-> body.contentId,
   url |-> OrElse(body.url, referer),
   timestamp |-> IF body.timestamp # NoTimestamp THEN body.timestamp ELSE t,
   metadata |-> body.metadata]

\* The event the handler builds from a parsed body at time t.
BuildEvent(body, referer, t) ==
  [action |-> OrElse(body.action, "copy"),
   contentId |-> body.contentId,
   url |-> OrElse(body.url, referer),
   timestamp |-> t,
   metadata |-> body.metadata]

----------------------------------------------------------------------------
(* The rate limiter of createAnalyticsHandler *)

\* Math.ceil(a / b) for b > 0.
Ceil(a, b) == IF a % b = 0 THEN a \div b ELSE (a \div b) + 1

\* request.headers.get('x-forwarded-for') || 'unknown'
ClientKey(xff) == OrElse(xff, "unknown")

NoEntry == [present |-> FALSE, count |-> 0, resetAt |-> 0]

\* A limiter that resets at its reset timestamp already: now >= resetAt.
ResetsAtTimestamp(counts, key, t) ==
  LET found == IF counts[key].present
                 THEN counts[key]
                 ELSE [present |-> TRUE, count |-> 0, resetAt |-> t + windowMs]
      clientData == IF t >= found.resetAt
                      THEN [found EXCEPT !.count = 0, !.resetAt = t + windowMs]
                      ELSE found
  IN  [clientData EXCEPT !.count = @ + 1]

\* A limiter that loses increments: an entry that has been counted once is
\* written back with the count it was read with.
LostIncrement(counts, key, t) ==
  LET found == IF counts[key].present
                 THEN counts[key]
                 ELSE [present |-> TRUE, count |-> 0, resetAt |-> t + windowMs]
      clientData == IF t > found.resetAt
                      THEN [found EXCEPT !.count = 0, !.resetAt = t + windowMs]
                      ELSE found
  IN  [clientData EXCEPT !.count = IF @ = 0 THEN 1 ELSE @]

\* const clientData = requestCounts.get(clientIp) || { count: 0, resetAt: now + windowMs };
\* if (now > clientData.resetAt) { count = 0; resetAt = now + windowMs }; clientData.count++
Counted(counts, key, t) ==
  LET found == IF counts[key].present
                 THEN counts[key]
                 ELSE [present |-> TRUE, count |-> 0, resetAt |-> t + windowMs]
      clientData == IF t > found.resetAt
                      THEN [found EXCEPT !.count = 0, !.resetAt = t + windowMs]
                      ELSE found
  IN  [clientData EXCEPT !.count = @ + 1]

\* A limiter that counts and lets every request through.
NeverExceeds(clientData, limit) == FALSE

\* clientData.count > options.rateLimit
Exceeds(clientData, limit) == clientData.count > limit

\* Math.ceil((clientData.resetAt - now) / 1000)
RetryAfter(clientData, t) == Ceil(clientData.resetAt - t, MsPerSecond)

----------------------------------------------------------------------------
(* Responses.  Every response is a record of the same shape; NoHeaderValue *)
(* (-1 for Retry-After) stands for a header that is not set.               *)

Response(status, text, success, event, message, retryAfter, allowOrigin, allowMethods, allowHeaders) ==
  [status |-> status, text |-> text, success |-> success, event |-> event,
   error |-> message, retryAfter |-> retryAfter,
   allowOrigin |-> allowOrigin, allowMethods |-> allowMethods, allowHeaders |-> allowHeaders]

Preflight ==
  Response(204, "", "(none)", NoEvent, "", -1, "*", "POST, OPTIONS", "Content-Type")
MethodNotAllowed ==
  Response(405, "Method Not Allowed", "(none)", NoEvent, "", -1, Undef, Undef, Undef)
RateLimited(retryAfter) ==
  Response(429, "Rate limit exceeded", "(none)", NoEvent, "", retryAfter, Undef, Undef, Undef)
Tracked(event, cors) ==
  Response(200, "", "true", event, "", -1, IF cors THEN "*" ELSE Undef, Undef, Undef)
TrackingFailed(err) ==
  Response(500, "", "false", NoEvent, "Failed to track event", -1, Undef, Undef, Undef)

\* A handler without the preflight branch: OPTIONS is refused as GET is.
RefusesAllButPost(method) ==
  IF method # "POST" THEN MethodNotAllowed
  ELSE Response(-1, "", "(none)", NoEvent, "", -1, Undef, Undef, Undef)

\* The two returns ahead of the rate limiter: 204 for OPTIONS, 405 for a
\* method other than POST; for POST neither is taken (no response yet).
EarlyReturn(method) ==
  IF method = "OPTIONS" THEN Preflight
  ELSE IF method # "POST" THEN MethodNotAllowed
  ELSE Response(-1, "", "(none)", NoEvent, "", -1, Undef, Undef, Undef)

\* What the model remembers of the request a response answers: its method,
\* whether it is a POST that arrived in the window opened by its client's
\* first POST, its body, the exception raised while it was handled, the
\* number of events its storage.save call appended, and the clock when its
\* event was stamped.
ReqInfo(method, inWindow, body, thrown, appended, stampedAt) ==
  [method |-> method, inWindow |-> inWindow, body |-> body, thrown |-> thrown,
   appended |-> appended, stampedAt |-> stampedAt]

NoResp == [resp |-> Response(-1, "", "(none)", NoEvent, "", -1, Undef, Undef, Undef),
           req |-> ReqInfo("(none)", FALSE, BodyEmpty, NoError, 0, NoTimestamp)]

\* An invocation suspended at pc ("json": await request.json(), "save": await
\* options.storage.save(event)) with the locals it resumes with.
Invocation(pc, body, event, thrown, appended, stampedAt) ==
  [pc |-> pc, body |-> body, event |-> event, thrown |-> thrown, appended |-> appended,
   stampedAt |-> stampedAt]

----------------------------------------------------------------------------
(* createAnalyticsHandler: the handler, one action per stretch of code     *)
(* between two awaits.  lastResp holds the response the step just taken    *)
(* returned, and NoResp after a step that returned none.                   *)

AnalyticsInit ==
  /\ options \in HandlerOptions
  /\ now = 0
  /\ requestCounts = [k \in ClientKeys |-> NoEntry]
  /\ events = <<>>
  /\ inflight = EmptyBag
  /\ lastResp = NoResp
  /\ nReq = 0
  /\ firstPost = [k \in ClientKeys |-> -1]
  /\ postIdx = [k \in ClientKeys |-> 0]
  /\ admitted = [k \in ClientKeys |-> 0]
  /\ admittedAt = [k \in ClientKeys |-> <<>>]

\* Time passes between two event-loop turns.
Tick ==
  /\ \E t \in Instants : t > now /\ now' = t
  /\ lastResp' = NoResp
  /\ UNCHANGED <<options, requestCounts, events, inflight, nReq, firstPost, postIdx, admitted, admittedAt>>

\* if (request.method === 'OPTIONS') return 204
ReceiveOptions ==
  /\ EarlyReturn("OPTIONS") # NoResp.resp
  /\ lastResp' = [resp |-> EarlyReturn("OPTIONS"),
                  req |-> ReqInfo("OPTIONS", FALSE, BodyEmpty, NoError, 0, NoTimestamp)]
  /\ UNCHANGED <<options, now, requestCounts, events, inflight, nReq, firstPost, postIdx,
                 admitted, admittedAt>>

\* if (request.method !== 'POST') return 405
ReceiveOther ==
  /\ \E method \in {"GET", "DELETE"} :
       /\ EarlyReturn(method) # NoResp.resp
       /\ lastResp' = [resp |-> EarlyReturn(method),
                       req |-> ReqInfo(method, FALSE, BodyEmpty, NoError, 0, NoTimestamp)]
  /\ UNCHANGED <<options, now, requestCounts, events, inflight, nReq, firstPost, postIdx,
                 admitted, admittedAt>>

\* Whether a POST of this key arriving now falls in the window opened by the
\* key's first POST (the reset timestamp included: the limiter resets only
\* when now > resetAt).
InFirstWindow(key) == firstPost[key] = -1 \/ now <= firstPost[key] + windowMs

\* await request.json()
Suspend ==
  /\ BagCardinality(inflight) < MaxInFlight
  /\ \E body \in Bodies :
       inflight' = inflight (+) SetToBag({Invocation("json", body, NoEvent, NoError, 0, NoTimestamp)})
  /\ lastResp' = NoResp

\* A POST: the rate limiter, then either 429 or the suspension at request.json().
\* Without options.rateLimit the header is not read and no window is opened.
ReceivePost ==
  /\ EarlyReturn("POST") = NoResp.resp
  /\ IF options.rateLimit # 0
       THEN \E xff \in ForwardedFor :
              LET key == ClientKey(xff)
                  clientData == Counted(requestCounts, key, now)
                  inWin == InFirstWindow(key)
                  limited == Exceeds(clientData, options.rateLimit)
              IN  /\ firstPost' = IF firstPost[key] = -1
                                    THEN [firstPost EXCEPT ![key] = now] ELSE firstPost
                  /\ postIdx' = IF inWin THEN [postIdx EXCEPT ![key] = @ + 1] ELSE postIdx
                  /\ admitted' = IF inWin /\ ~limited
                                   THEN [admitted EXCEPT ![key] = @ + 1] ELSE admitted
                  /\ requestCounts' = [requestCounts EXCEPT ![key] = clientData]
                  /\ IF limited
                       THEN /\ lastResp' = [resp |-> RateLimited(RetryAfter(clientData, now)),
                                            req |-> ReqInfo("POST", inWin, BodyEmpty, NoError, 0,
                                                            NoTimestamp)]
                            /\ UNCHANGED inflight
                       ELSE Suspend
       ELSE /\ Suspend
            /\ UNCHANGED <<requestCounts, firstPost, postIdx, admitted>>
  /\ nReq' = nReq + 1
  /\ UNCHANGED <<options, now, events>>

\* Array.prototype.unshift in place of push
SaveFirst(log, event, outcome) == IF outcome = NoError THEN <<event>> \o log ELSE log

\* storage.save(event): the adapter appends the event and resolves, or rejects.
Save(log, event, outcome) == IF outcome = NoError THEN Append(log, event) ELSE log

\* aggregateEvents on the array storage.getAll() resolves to: a count for
\* copy, view and download; an event with another action is not counted.
AggregateEvents(log) ==
  [action \in {"copy", "view", "download"} |->
     Cardinality({n \in 1..Len(log) : log[n].action = action})]

\* The suspended invocation inv returns resp; thrown is the exception it caught.
Respond(inv, resp, thrown) ==
  /\ lastResp' = [resp |-> resp,
                  req |-> ReqInfo("POST", FALSE, inv.body, thrown, inv.appended, inv.stampedAt)]
  /\ inflight' = inflight (-) SetToBag({inv})

\* request.json() settles; on a parsed body the event is built, stamped and
\* handed to storage.save, and the handler suspends again.
JsonSettles(inv) ==
  /\ inv.pc = "json"
  /\ CASE inv.body.kind = "malformed" ->
            /\ \E err \in Errors : Respond(inv, TrackingFailed(err), err)
            /\ UNCHANGED events
       [] inv.body.kind = "null" ->
            /\ Respond(inv, TrackingFailed("TypeError"), "TypeError")
            /\ UNCHANGED events
       [] OTHER ->
            \E outcome \in {NoError, "(rejected)"} :
              LET event == BuildEvent(inv.body, "https://site.example/page", now) IN
                /\ events' = Save(events, event, outcome)
                /\ inflight' = (inflight (-) SetToBag({inv})) (+)
                     SetToBag({Invocation("save", inv.body, event, outcome,
                                          Len(events') - Len(events), now)})
                /\ lastResp' = NoResp
  /\ UNCHANGED <<options, now, requestCounts, nReq, firstPost, postIdx, admitted, admittedAt>>

\* storage.save settles: 200 with the event, or the catch block's 500.
SaveSettles(inv) ==
  /\ inv.pc = "save"
  /\ IF inv.thrown = NoError
       THEN Respond(inv, Tracked(inv.event, options.cors), NoError)
       ELSE \E err \in Errors : Respond(inv, TrackingFailed(err), err)
  /\ UNCHANGED <<options, now, requestCounts, events, nReq, firstPost, postIdx, admitted, admittedAt>>

----------------------------------------------------------------------------
(* Content records (LLMContent) and the Markdown assembler, generateMarkdown. *)
(* A document is the sequence of its lines; the body of a record is a        *)
(* sequence of tokens: opening tags, closing tags and runs of text.          *)

Tok(kind, name, text) == [kind |-> kind, name |-> name, text |-> text]

PlainContent == <<Tok("text", "", "Plain words only.")>>
HtmlContent ==
  <<Tok("open", "h2", ""), Tok("text", "", "Intro"), Tok("close", "h2", ""), Tok("open", "p", ""), Tok("text", "", "Body text."), Tok("close", "p", ""),
    Tok("open", "h3", ""), Tok("text", "", "Details"), Tok("close", "h3", ""), Tok("open", "p", ""), Tok("text", "", "More text."), Tok("close", "p", "")>>

\* promptPrefix: 42 stands for a record that breaks its type: trim() is not a
\* function of a number, so the assembler throws a TypeError on it.
NotAString == "(number 42)"

ContentRecords ==
  [title : {"Hello World"}, content : {<<>>, PlainContent, HtmlContent}, url : {"https://site.example/hello"},
   excerpt : {Undef, "A short excerpt"}, date : {Undef, "2024-01-15"},
   modifiedDate : {Undef, "2024-02-01"}, author : {Undef, "Ada"},
   categories : {<<>>, <<"News", "Tech">>}, tags : {<<>>, <<"ai">>},
   promptPrefix : {Undef, "   ", " Summarize this page: "}, readingTime : {0, 5}]

BrokenRecord ==
  [title |-> "Hello World", content |-> PlainContent, url |-> "https://site.example/hello",
   excerpt |-> Undef, date |-> Undef, modifiedDate |-> Undef, author |-> Undef,
   categories |-> <<>>, tags |-> <<>>, promptPrefix |-> NotAString, readingTime |-> 0]

NoRecord ==
  [title |-> "", content |-> <<>>, url |-> "",
   excerpt |-> Undef, date |-> Undef, modifiedDate |-> Undef, author |-> Undef,
   categories |-> <<>>, tags |-> <<>>, promptPrefix |-> Undef, readingTime |-> 0]

\* String.prototype.trim on the prompt prefixes used here.
Trim(str) ==
  CASE str = "   " -> ""
    [] str = " Summarize this page: " -> "Summarize this page:"
    [] OTHER -> str

\* A string used as a condition that is taken for set unless it is empty.
NonEmpty(str) == str # ""

\* A string used as a condition: undefined and "" are falsy.
Truthy(str) == str # Undef /\ str # ""

\* Array.prototype.join(', ')
RECURSIVE JoinComma(_)
JoinComma(list) ==
  IF list = <<>> THEN ""
  ELSE IF Len(list) = 1 THEN list[1]
  ELSE list[1] \o ", " \o JoinComma(Tail(list))

\* isHTML: /<[a-z][\s\S]*>/i matches when an opening tag occurs.
IsHTML(content) == \E n \in 1..Len(content) : content[n].kind = "open"

HeadingMarks(name) ==
  CASE name = "h1" -> "# " [] name = "h2" -> "## " [] name = "h3" -> "### "
    [] name = "h4" -> "#### " [] name = "h5" -> "##### " [] name = "h6" -> "###### "
    [] OTHER -> ""

\* Concatenation of two texts given as their lines: the last line of the
\* first continues with the first line of the second.
ConcatText(a, b) ==
  IF a = <<>> THEN b
  ELSE IF b = <<>> THEN a
  ELSE SubSeq(a, 1, Len(a) - 1) \o <<a[Len(a)] \o b[1]>> \o Tail(b)

\* serverSideConvert before its whitespace clean-up, on a body made of
\* headings and paragraphs: '<hN>$1</hN>' becomes '\n' + marks + '$1\n',
\* '<p>$1</p>' becomes '\n$1\n', and the remaining tags are stripped.
RECURSIVE ConvertTokens(_, _)
ConvertTokens(content, marks) ==
  IF content = <<>> THEN <<"">>
  ELSE LET tok == Head(content) IN
         CASE tok.kind = "open" -> ConvertTokens(Tail(content), HeadingMarks(tok.name))
           [] tok.kind = "close" -> ConvertTokens(Tail(content), "(outside)")
           [] OTHER -> ConcatText(IF marks = "(outside)" THEN <<tok.text>>
                                  ELSE <<"", marks \o tok.text, "">>,
                                  ConvertTokens(Tail(content), marks))

\* replace(/\n{3,}/g, '\n\n'): at most one empty line in a row.
RECURSIVE CollapseBlank(_)
CollapseBlank(lines) ==
  IF Len(lines) < 2 THEN lines
  ELSE IF lines[1] = "" /\ lines[2] = "" THEN CollapseBlank(Tail(lines))
  ELSE <<lines[1]>> \o CollapseBlank(Tail(lines))

\* String.prototype.trim on a document: no empty line at either end.
RECURSIVE TrimLines(_)
TrimLines(lines) ==
  IF lines = <<>> THEN <<>>
  ELSE IF Head(lines) = "" THEN TrimLines(Tail(lines))
  ELSE IF lines[Len(lines)] = "" THEN TrimLines(SubSeq(lines, 1, Len(lines) - 1))
  ELSE lines

\* htmlToMarkdown on the server (typeof window === 'undefined')
HtmlToMarkdown(content) == TrimLines(CollapseBlank(ConvertTokens(content, "(outside)")))

\* A body that is not HTML is passed through: its text, as one line.
RECURSIVE PlainText(_)
PlainText(content) ==
  IF content = <<>> THEN "" ELSE Head(content).text \o PlainText(Tail(content))

\* The assembler throws on a record whose promptPrefix is not a string.
AssemblyThrows(content) == content.promptPrefix = NotAString

\* generateMarkdown(content).markdown: the parts, joined and trimmed.
GenerateMarkdownString(content) ==
  LET prefix == IF content.promptPrefix # Undef /\ Truthy(Trim(content.promptPrefix))
                  THEN <<Trim(content.promptPrefix), "">> ELSE <<>>
      title == <<"# " \o content.title, "">>
      excerpt == IF Truthy(content.excerpt) THEN <<"> " \o content.excerpt, "">> ELSE <<>>
      meta ==
        <<"---", "- **Source**: " \o content.url>>
        \o (IF Truthy(content.date) THEN <<"- **Date**: " \o content.date>> ELSE <<>>)
        \o (IF Truthy(content.modifiedDate)
              THEN <<"- **Modified**: " \o content.modifiedDate>> ELSE <<>>)
        \o (IF Truthy(content.author) THEN <<"- **Author**: " \o content.author>> ELSE <<>>)
        \o (IF Len(content.categories) # 0
              THEN <<"- **Categories**: " \o JoinComma(content.categories)>> ELSE <<>>)
        \o (IF Len(content.tags) # 0
              THEN <<"- **Tags**: " \o JoinComma(content.tags)>> ELSE <<>>)
        \o (IF content.readingTime # 0
              THEN <<"- **Reading Time**: " \o ToString(content.readingTime) \o " min">>
              ELSE <<>>)
        \o <<"---", "">>
      body == IF content.content # <<>>
                THEN IF IsHTML(content.content)
                       THEN HtmlToMarkdown(content.content)
                       ELSE <<PlainText(content.content)>>
                ELSE <<>>
  IN  TrimLines(prefix \o title \o excerpt \o meta \o body)

----------------------------------------------------------------------------
(* The llms.txt assembler.  A listing is the site's name, its optional     *)
(* description, the optional header text, an entry per item in input order *)
(* and the optional footer text.                                           *)

SiteConfigs ==
  {[siteName |-> "My Site", siteDescription |-> Undef, siteUrl |-> "https://site.example"],
   [siteName |-> "My Site", siteDescription |-> "A great website",
    siteUrl |-> "https://site.example"]}
NoSiteConfig == [siteName |-> "", siteDescription |-> Undef, siteUrl |-> ""]

ItemLists ==
  {<<>>,
   <<[title |-> "First", url |-> "https://site.example/a", type |-> "post",
      date |-> "2024-01-15", description |-> Undef]>>,
   <<[title |-> "Second", url |-> "https://site.example/b", type |-> Undef,
      date |-> Undef, description |-> "About b"],
     [title |-> "First", url |-> "https://site.example/a", type |-> "post",
      date |-> "2024-01-15", description |-> Undef]>>}

Optional(label, value) == IF Truthy(value) THEN <<label \o value>> ELSE <<>>

RECURSIVE ListItems(_)
ListItems(items) ==
  IF items = <<>> THEN <<>>
  ELSE LET item == Head(items) IN
         <<item.title, item.url>> \o Optional("type: ", item.type)
           \o Optional("date: ", item.date) \o Optional("description: ", item.description)
           \o ListItems(Tail(items))

GenerateLLMsTxt(config) ==
  <<config.siteName>> \o Optional("", config.siteDescription)
    \o Optional("", config.headerText) \o ListItems(config.content)
    \o Optional("", config.footerText)

----------------------------------------------------------------------------
(* Text responses of the llms.txt handlers, the markdown handler and the   *)
(* ?llm=1 middleware.  Undef stands for a header that is not set.          *)

HttpResponse(status, body, contentType, cacheControl, robots, allowOrigin, allowMethods) ==
  [status |-> status, body |-> body, contentType |-> contentType,
   cacheControl |-> cacheControl, robots |-> robots,
   allowOrigin |-> allowOrigin, allowMethods |-> allowMethods]

Bare(status, text) == HttpResponse(status, <<text>>, Undef, Undef, Undef, Undef, Undef)

\* The middleware returns undefined: the request continues to the page.
PassThrough == HttpResponse(0, <<>>, Undef, Undef, Undef, Undef, Undef)

\* A catch block that answers with the exception's message.
ErrorResponseWithMessage(text, err) == Bare(500, text \o ": " \o err)

\* The catch block of a handler: the exception is logged, not returned.
ErrorResponse(text, err) == Bare(500, text)

\* The outcome of awaiting a caller-supplied callback: a value or an exception.
Returned(kind, value) == [kind |-> kind, value |-> value, error |-> NoError]
Threw(value, err) == [kind |-> "throws", value |-> value, error |-> err]

LookupOutcomes ==
  {Returned("null", NoRecord)}
    \cup {Returned("record", r) : r \in ContentRecords \cup {BrokenRecord}}
    \cup {Threw(NoRecord, err) : err \in Errors}

MarkdownHandlerOptions == [cors : BOOLEAN, cacheControl : {Undef, "no-store"}]

\* 200 with the markdown and its headers
MarkdownResponse(opts, markdown) ==
  HttpResponse(200, markdown, "text/markdown; charset=utf-8",
               OrElse(opts.cacheControl, "public, max-age=3600"), "noindex",
               IF opts.cors THEN "*" ELSE Undef, IF opts.cors THEN "GET" ELSE Undef)

\* if (content): the test below with its negation dropped.
Present(lookup) == lookup.kind # "null"

\* if (!content): a record is an object, hence truthy; null is not.
Missing(lookup) == lookup.kind = "null"

\* The exception the try block raises, NoError when it raises none.
MarkdownThrown(lookup) ==
  IF lookup.kind = "throws" THEN lookup.error
  ELSE IF ~Missing(lookup) /\ AssemblyThrows(lookup.value) THEN "TypeError"
  ELSE NoError

\* The try/catch shared by createMarkdownHandler and withLLMParam; notFound
\* is the 404 each of them answers.
ServeMarkdown(opts, lookup, notFound) ==
  IF MarkdownThrown(lookup) # NoError
    THEN ErrorResponse("Error generating markdown", MarkdownThrown(lookup))
  ELSE IF Missing(lookup) THEN notFound
  ELSE MarkdownResponse(opts, GenerateMarkdownString(lookup.value))

\* createMarkdownHandler(options)(request, { params })
MarkdownHandler(opts, lookup) ==
  ServeMarkdown(opts, lookup,
                HttpResponse(404, <<"Content not found">>, "text/plain",
                             Undef, Undef, Undef, Undef))

\* URLSearchParams.get(name): the value of the first pair of that name,
\* null (Undef) when there is none.  A query is the sequence of its pairs.
SearchParamsGet(query, name) ==
  IF \E n \in 1..Len(query) : query[n].name = name
    THEN query[CHOOSE n \in 1..Len(query) :
                 /\ query[n].name = name
                 /\ \A k \in 1..(n - 1) : query[k].name # name].value
    ELSE Undef

\* hasLLMParam(request)
HasLLMParam(query) == SearchParamsGet(query, "llm") = "1"

\* A middleware that handles every request that carries the parameter.
MiddlewareIfPresent(opts, llmParam, lookup) ==
  IF llmParam = Undef THEN PassThrough
  ELSE ServeMarkdown(opts, lookup, Bare(404, "Content not found"))

\* withLLMParam(options)(request)
Middleware(opts, llmParam, lookup) ==
  IF llmParam # "1" THEN PassThrough
  ELSE ServeMarkdown(opts, lookup, Bare(404, "Content not found"))

LLMsTxtHandlerOptions ==
  [cacheControl : {Undef, "no-store"}, headerText : {Undef, "Welcome, crawlers"},
   footerText : {Undef, "End of listing"}]

SiteConfigOutcomes ==
  {Returned("config", c) : c \in SiteConfigs} \cup {Threw(NoSiteConfig, err) : err \in Errors}
ItemsOutcomes ==
  {Returned("items", l) : l \in ItemLists} \cup {Threw(<<>>, err) : err \in Errors}

\* The exception the try block raises: getSiteConfig is awaited first.
LLMsTxtThrown(site, items) ==
  IF site.kind = "throws" THEN site.error
  ELSE IF items.kind = "throws" THEN items.error
  ELSE NoError

\* createLLMsTxtHandler(options)(request)
LLMsTxtHandler(opts, site, items) ==
  IF LLMsTxtThrown(site, items) # NoError
    THEN ErrorResponse("Error generating llms.txt", LLMsTxtThrown(site, items))
  ELSE HttpResponse(200,
         GenerateLLMsTxt([siteName |-> site.value.siteName,
                          siteDescription |-> site.value.siteDescription,
                          siteUrl |-> site.value.siteUrl, content |-> items.value,
                          headerText |-> opts.headerText, footerText |-> opts.footerText]),
         "text/plain; charset=utf-8", OrElse(opts.cacheControl, "public, max-age=3600"),
         "noindex", Undef, Undef)

\* createLLMsTxtPageHandler(options)(req, res)
LLMsTxtPageHandler(opts, method, site, items) ==
  IF method # "GET" THEN Bare(405, "Method Not Allowed")
  ELSE LLMsTxtHandler(opts, site, items)

----------------------------------------------------------------------------
(* The handlers that keep no state, one action per request: the handler    *)
(* runs to its response, which httpResp holds, with the request's inputs,  *)
(* until it is sent.  json is the JSON response of the Pages analytics     *)
(* handler, resp the text response of the others.                          *)

NotCalled == [kind |-> "(not called)", value |-> NoRecord, error |-> NoError]
NoText == HttpResponse(-1, <<>>, Undef, Undef, Undef, Undef, Undef)
NoJson == Response(-1, "", "(none)", NoEvent, "", -1, Undef, Undef, Undef)

Served(handler, resp, json, thrown, lookup, arg, method) ==
  [handler |-> handler, resp |-> resp, json |-> json, thrown |-> thrown,
   lookup |-> lookup, arg |-> arg, method |-> method]

NoHttpResp == Served("(none)", NoText, NoJson, NoError, NotCalled, Undef, Undef)

AwaitingRequest == httpResp = NoHttpResp

\* No analytics POST has been received yet.
AnalyticsUntouched == nReq = 0 /\ inflight = EmptyBag /\ lastResp = NoResp

PageMethods == {"GET", "POST", Undef}

ServeLLMsTxt ==
  /\ AwaitingRequest
  /\ \E opts \in LLMsTxtHandlerOptions, site \in SiteConfigOutcomes, items \in ItemsOutcomes :
       httpResp' = Served("createLLMsTxtHandler", LLMsTxtHandler(opts, site, items), NoJson,
                          LLMsTxtThrown(site, items), NotCalled, Undef, "GET")

ServeLLMsTxtPage ==
  /\ AwaitingRequest
  /\ \E opts \in LLMsTxtHandlerOptions, method \in PageMethods,
        site \in SiteConfigOutcomes, items \in ItemsOutcomes :
       httpResp' = Served("createLLMsTxtPageHandler",
                          LLMsTxtPageHandler(opts, method, site, items), NoJson,
                          IF method = "GET" THEN LLMsTxtThrown(site, items) ELSE NoError,
                          NotCalled, Undef, method)

\* const slug = params?.slug || ''
ServeMarkdownRoute ==
  /\ AwaitingRequest
  /\ \E opts \in MarkdownHandlerOptions, slug \in {Undef, "hello"}, lookup \in LookupOutcomes :
       httpResp' = Served("createMarkdownHandler", MarkdownHandler(opts, lookup), NoJson,
                          MarkdownThrown(lookup), lookup, OrElse(slug, ""), "GET")

\* The lookup is called, with the pathname, only when llm is "1".  The
\* queries: no llm pair, one, two, and a pair whose name differs in case.
ServeMiddleware ==
  /\ AwaitingRequest
  /\ \E opts \in MarkdownHandlerOptions,
        query \in {<<>>, <<[name |-> "llm", value |-> "1"]>>, <<[name |-> "llm", value |-> "0"]>>,
                   <<[name |-> "llm", value |-> "true"]>>, <<[name |-> "llm", value |-> ""]>>,
                   <<[name |-> "llm", value |-> "01"]>>, <<[name |-> "LLM", value |-> "1"]>>,
                   <<[name |-> "llm", value |-> "1"], [name |-> "llm", value |-> "0"]>>,
                   <<[name |-> "llm", value |-> "0"], [name |-> "llm", value |-> "1"]>>,
                   <<[name |-> "page", value |-> "2"], [name |-> "llm", value |-> "1"]>>} :
       LET llmParam == SearchParamsGet(query, "llm") IN
         IF llmParam = "1"
           THEN \E lookup \in LookupOutcomes :
                  httpResp' = Served("withLLMParam", Middleware(opts, llmParam, lookup), NoJson,
                                     MarkdownThrown(lookup), lookup, query, "GET")
           ELSE httpResp' = Served("withLLMParam", Middleware(opts, llmParam, NotCalled),
                                   NoJson, NoError, NotCalled, query, "GET")

\* createAnalyticsPageHandler(options)(req, res): req.body is already parsed
\* (BodyNull: no body), storage.save resolves or rejects with err.
AnalyticsPageHandler(method, body, outcome, t) ==
  IF method # "POST" THEN MethodNotAllowed
  ELSE IF outcome # NoError THEN TrackingFailed(outcome)
  ELSE Tracked(BuildEvent(body, "https://site.example/page", t), options.cors)

ServeAnalyticsPage ==
  /\ AwaitingRequest
  /\ \E method \in PageMethods, body \in {b \in Bodies : b.kind # "malformed"},
        outcome \in {NoError} \cup Errors :
       httpResp' = Served("createAnalyticsPageHandler", NoText,
                          AnalyticsPageHandler(method, body, outcome, now),
                          IF method = "POST" THEN outcome ELSE NoError,
                          NotCalled, Undef, method)

\* The response is sent.
Sent ==
  /\ ~AwaitingRequest
  /\ httpResp' = NoHttpResp

----------------------------------------------------------------------------
(* buildNestedTOC(headings).  Items are identified by the index of their   *)
(* heading, so that the item on the stack and the item in its parent's     *)
(* children array are the same object, as in the code.                     *)

MaxHeadings == 5

\* levels = ['h2', 'h3', 'h4']
Levels == 2..4

\* Array.prototype.unshift, in place of push
Unshift(array, item) == <<item>> \o array

\* Array.prototype.push
Push(array, item) == Append(array, item)

\* stack[stack.length - 1].level > heading.level, in place of >=
PopsDeeper(topLevel, level) == topLevel > level

\* stack[stack.length - 1].level >= heading.level
Pops(topLevel, level) == topLevel >= level

\* while (stack.length > 0 && stack[...].level >= heading.level) stack.pop()
RECURSIVE PopWhile(_, _)
PopWhile(stk, level) ==
  IF Len(stk) > 0 /\ Pops(headings[stk[Len(stk)]], level)
    THEN PopWhile(SubSeq(stk, 1, Len(stk) - 1), level)
    ELSE stk

TocInit ==
  /\ headings \in UNION {[1..n -> Levels] : n \in 0..MaxHeadings}
  /\ pos = 1
  /\ stack = <<>>
  /\ children = [i \in 1..Len(headings) |-> <<>>]
  /\ result = <<>>

\* One iteration of for (const heading of headings)
Iterate ==
  /\ pos <= Len(headings)
  /\ LET popped == PopWhile(stack, headings[pos]) IN
       /\ IF Len(popped) = 0
            THEN /\ result' = Push(result, pos)
                 /\ UNCHANGED children
            ELSE /\ children' = [children EXCEPT ![popped[Len(popped)]] = Push(@, pos)]
                 /\ UNCHANGED result
       /\ stack' = Push(popped, pos)
  /\ pos' = pos + 1
  /\ UNCHANGED headings

\* return result (reached at once when headings.length === 0)
TocReturned == pos > Len(headings)

----------------------------------------------------------------------------
(* useTOC: the IntersectionObserver callback and scrollTo, once the        *)
(* headings are extracted and observed.                                    *)

Null == "(null)"

\* The ids of the headings in the container, all of them observed, and the
\* ids of the elements of the document, the headings among them.
HeadingIds == {"intro", "usage"}
DocumentIds == HeadingIds \cup {"footer"}

MaxBatch == 3
MaxScrolls == 2

\* Notification batches: entries of observed targets, in the order delivered.
Batches ==
  UNION {[1..n -> [target : HeadingIds, isIntersecting : BOOLEAN]] : n \in 1..MaxBatch}

\* An observer callback that sets the active id for every entry.
OnAnyEntry(active, entry) == entry.target

\* if (entry.isIntersecting) setActiveId(entry.target.id)
OnEntry(active, entry) == IF entry.isIntersecting THEN entry.target ELSE active

\* entries.forEach(...): the state updates apply in order.
RECURSIVE ForEachEntry(_, _)
ForEachEntry(entries, active) ==
  IF entries = <<>> THEN active
  ELSE ForEachEntry(Tail(entries), OnEntry(active, Head(entries)))

\* container.querySelector('#' + id): only the headings of the container
QueryHeading(id) == IF id \in HeadingIds THEN id ELSE Null

\* document.getElementById(id)
GetElementById(id) == IF id \in DocumentIds THEN id ELSE Null

Op(kind, batch, id, before) == [kind |-> kind, batch |-> batch, id |-> id, before |-> before]

TrackerInit ==
  /\ activeId = Null
  /\ scrolled = <<>>
  /\ history = <<>>
  /\ lastOp = Op("(none)", <<>>, Null, <<Null, <<>>, <<>>>>)

\* The observer delivers a batch of entries.
Notify ==
  /\ \E batch \in Batches :
       /\ activeId' = ForEachEntry(batch, activeId)
       /\ lastOp' = Op("notify", batch, Null, <<activeId, scrolled, history>>)
  /\ UNCHANGED <<scrolled, history>>

\* scrollTo(id)
ScrollTo ==
  /\ Len(scrolled) < MaxScrolls
  /\ \E id \in DocumentIds \cup {"missing", ""} :
       LET element == GetElementById(id) IN
         /\ lastOp' = Op("scrollTo", <<>>, id, <<activeId, scrolled, history>>)
         /\ IF element # Null
              THEN /\ scrolled' = Append(scrolled, [element |-> element,
                                                    behavior |-> "smooth", block |-> "start"])
                   /\ activeId' = id
                   /\ history' = Append(history, "#" \o id)
              ELSE UNCHANGED <<activeId, scrolled, history>>

----------------------------------------------------------------------------
(* useTOC as React runs it: a render, then the cleanups of the effects     *)
(* whose dependencies changed, then the bodies of those effects, in the    *)
(* order of the hook.  An array or object that is created anew is a        *)
(* changed dependency, whatever it holds; on mount every effect runs.      *)
(* Headings are taken by their ids.                                        *)

\* A commit in which the cleanup of the observer effect is not run.
CleanupKeepsObserver ==
  /\ phase = "cleanup"
  /\ phase' = "extract"
  /\ lastOp' = Op("(no cleanup)", <<>>, Null, <<Null, <<>>, <<>>>>)
  /\ UNCHANGED <<caller, container, tracked, rendered, observers, changed, due, activeId,
                 scrolled, history>>

\* The component that calls useTOC renders again: with a new contentRef,
\* other levels, another rootMargin or threshold, or none of these, and with
\* whatever headings the container now holds.  A heading element that left
\* the container is no target any more: one that comes with its id is
\* another element.
ParentRenders ==
  /\ phase \in {"idle", "render"}
  /\ \E what \in SUBSET {"ref", "levels", "options"}, now_in \in SUBSET HeadingIds :
       /\ changed' = changed \cup what
       /\ container' = now_in
       /\ observers' = [i \in DOMAIN observers |-> observers[i] \cap now_in]
  /\ phase' = "render"
  /\ lastOp' = Op("props", <<>>, Null, <<Null, <<>>, <<>>>>)
  /\ UNCHANGED <<caller, tracked, rendered, due, activeId, scrolled, history>>

\* useTOC(options) is called: levels = ['h2', 'h3', 'h4'] is a new array in
\* every call in which the caller passes none.  The effects to run are those
\* with a changed dependency: [contentRef, levels] and
\* [contentRef, headings, rootMargin, threshold].
Render ==
  /\ phase \in {"mount", "render"}
  /\ due' = (IF phase = "mount" \/ caller = "default" \/ changed \cap {"ref", "levels"} # {}
               THEN {"extract"} ELSE {})
            \cup (IF phase = "mount" \/ changed \cap {"ref", "headings", "options"} # {}
                    THEN {"observe"} ELSE {})
  /\ rendered' = tracked
  /\ changed' = {}
  /\ phase' = "cleanup"
  /\ lastOp' = Op("render", <<>>, Null, <<Null, <<>>, <<>>>>)
  /\ UNCHANGED <<caller, container, tracked, observers, activeId, scrolled, history>>

\* return () => observer.disconnect(): the cleanup the observer effect
\* returned when it last created an observer, run before the effect runs
\* again.
Cleanup ==
  /\ phase = "cleanup"
  /\ IF "observe" \in due /\ observers # <<>>
       THEN /\ observers' = SubSeq(observers, 1, Len(observers) - 1)
            /\ lastOp' = Op("disconnect", <<>>, Null, <<Null, <<>>, <<>>>>)
       ELSE /\ lastOp' = Op("(no cleanup)", <<>>, Null, <<Null, <<>>, <<>>>>)
            /\ UNCHANGED observers
  /\ phase' = "extract"
  /\ UNCHANGED <<caller, container, tracked, rendered, changed, due, activeId, scrolled,
                 history>>

\* The extraction effect: setHeadings(extracted), with an array made in this
\* run, which React takes for a new state.
ExtractEffect ==
  /\ phase = "extract"
  /\ IF "extract" \in due
       THEN /\ tracked' = container
            /\ changed' = changed \cup {"headings"}
            /\ lastOp' = Op("extract", <<>>, Null, <<Null, <<>>, <<>>>>)
       ELSE /\ lastOp' = Op("(not due)", <<>>, Null, <<Null, <<>>, <<>>>>)
            /\ UNCHANGED <<tracked, changed>>
  /\ phase' = "observe"
  /\ UNCHANGED <<caller, container, rendered, observers, due, activeId, scrolled, history>>

\* The observer effect, with the headings of this render: a new
\* IntersectionObserver that observes the headings found in the container;
\* none when headings.length === 0.  A state set during the effects makes
\* React render again.
ObserveEffect ==
  /\ phase = "observe"
  /\ IF "observe" \in due /\ rendered # {}
       THEN /\ observers' = Append(observers, rendered \cap container)
            /\ lastOp' = Op("subscribe", <<>>, Null, <<Null, <<>>, <<>>>>)
       ELSE /\ lastOp' = Op("(not due)", <<>>, Null, <<Null, <<>>, <<>>>>)
            /\ UNCHANGED observers
  /\ phase' = IF changed # {} THEN "render" ELSE "idle"
  /\ UNCHANGED <<caller, container, tracked, rendered, changed, due, activeId, scrolled,
                 history>>

\* The component unmounts: the cleanup of the observer effect runs.
Unmount ==
  /\ phase \in {"idle", "render"}
  /\ phase' = "unmounted"
  /\ observers' = IF observers # <<>> THEN SubSeq(observers, 1, Len(observers) - 1)
                  ELSE observers
  /\ lastOp' = Op("unmount", <<>>, Null, <<Null, <<>>, <<>>>>)
  /\ UNCHANGED <<caller, container, tracked, rendered, changed, due, activeId, scrolled,
                 history>>

----------------------------------------------------------------------------

(* useAnalytics: track(event), with the fetch it awaits when the browser   *)
(* has no navigator.sendBeacon.  JavaScript runs a call up to its await,   *)
(* or to its end, without another call in between.  The payload is taken   *)
(* to be serialisable.                                                     *)

MaxTracks == 3

\* The events passed to track: trackCopy and trackView pass no contentId.
TrackEvents ==
  [action : {"copy", "view"}, contentId : {"(undefined)", "", "a"}]

\* A fetch that settles and whose key stays in the set when it fails.
SettlesWithoutFinally(call) ==
  /\ call \in fetching
  /\ fetching' = fetching \ {call}
  /\ \E outcome \in {NoError, "TypeError: Failed to fetch"} :
       /\ pendingRef' = IF outcome = NoError THEN pendingRef \ {call.key} ELSE pendingRef
       /\ lastTrack' = [outcome |-> "settled", key |-> call.key, event |-> call.event,
                        logged |-> outcome, promise |-> "fulfilled", had |-> pendingRef]
  /\ UNCHANGED <<sendBeacon, delivered, nTracks>>

\* track(event): the key from the event and Date.now(); return when the set
\* has it; add it, hand the payload to sendBeacon or to fetch, and with
\* sendBeacon, which is not awaited, go on to the finally block.
Track ==
  /\ nTracks < MaxTracks
  /\ nTracks' = nTracks + 1
  /\ \E event \in TrackEvents :
       LET key == event.action \o "-"
                    \o (IF event.contentId = "(undefined)" THEN "" ELSE event.contentId)
                    \o "-" \o ToString(now)
       IN  IF key \in pendingRef
             THEN /\ lastTrack' = [outcome |-> "dropped", key |-> key, event |-> event,
                                   logged |-> NoError, promise |-> "fulfilled",
                                   had |-> pendingRef]
                  /\ UNCHANGED <<pendingRef, fetching, delivered>>
             ELSE /\ delivered' = Append(delivered, event)
                  /\ IF sendBeacon
                       THEN /\ pendingRef' = (pendingRef \cup {key}) \ {key}
                            /\ lastTrack' = [outcome |-> "sent", key |-> key, event |-> event,
                                             logged |-> NoError, promise |-> "fulfilled",
                                             had |-> pendingRef]
                            /\ UNCHANGED fetching
                       ELSE /\ pendingRef' = pendingRef \cup {key}
                            /\ fetching' = fetching \cup {[key |-> key, event |-> event]}
                            /\ lastTrack' = [outcome |-> "sent", key |-> key, event |-> event,
                                             logged |-> NoError, promise |-> "pending",
                                             had |-> pendingRef]
  /\ UNCHANGED sendBeacon

\* The fetch of a call settles: catch logs a rejection, finally deletes the
\* key, and the promise of track is fulfilled.
FetchSettles(call) ==
  /\ call \in fetching
  /\ fetching' = fetching \ {call}
  /\ \E outcome \in {NoError, "TypeError: Failed to fetch"} :
       /\ pendingRef' = pendingRef \ {call.key}
       /\ lastTrack' = [outcome |-> "settled", key |-> call.key, event |-> call.event,
                        logged |-> outcome, promise |-> "fulfilled", had |-> pendingRef]
  /\ UNCHANGED <<sendBeacon, delivered, nTracks>>

----------------------------------------------------------------------------

(* copyToClipboard and the copy() callback of useLLMCopy, as CopyButton    *)
(* uses it.  A call is suspended first at navigator.clipboard.writeText    *)
(* (pc "write"), when the Clipboard API is there, then at the promise of   *)
(* copyToClipboard (pc "settled"), whose value it holds.                   *)

MaxCopies == 2

\* document.execCommand('copy') returns true or false, or throws.
ExecOutcomes == {"true", "false", "throws"}

\* fallbackCopyToClipboard(text): the catch block returns false.
FallbackCopyToClipboard(exec) == IF exec = "throws" THEN "false" ELSE exec

\* A copyToClipboard that runs the fallback whatever the write did.
FallsBackAlways(write) == TRUE

\* The fallback is reached when writeText rejected (the catch falls through).
FallsBack(write) == write = "rejected"

\* if (success), taking any value the promise resolves with for a success.
IfSettled(value) == value # "rejected"

\* if (success), for the value awaited from copyToClipboard
IfSuccess(value) == value = "true"

Call(pc, primary, fallback, value) ==
  [pc |-> pc, primary |-> primary, fallback |-> fallback, value |-> value]

Settled(call, returned, effects, before) ==
  [call |-> call, result |-> returned, effects |-> effects, before |-> before]

NoCopy == Settled(Call("(none)", "", "", ""), FALSE, <<>>, <<FALSE, FALSE, 0, 0>>)

\* options.callback?.(...): called when the page supplies it.
Invoke(callback) == IF callback \in props THEN <<callback>> ELSE <<>>

CopyInit ==
  /\ props \in {{}, {"onCopy", "onError", "onAnalytics"}}
  /\ isCopying = FALSE
  /\ isSuccess = FALSE
  /\ error = Null
  /\ showToast = FALSE
  /\ resetTimers = 0
  /\ toastTimers = 0
  /\ calls = EmptyBag
  /\ nCopies = 0
  /\ lastCopy = NoCopy

\* copy() up to its await: by the button or by the keyboard shortcut, which
\* does not look at isCopying.  Without the Clipboard API copyToClipboard runs
\* the fallback before it returns its promise.
Copy ==
  /\ nCopies < MaxCopies
  /\ nCopies' = nCopies + 1
  /\ isCopying' = TRUE
  /\ error' = Null
  /\ \E available \in BOOLEAN :
       IF available
         THEN calls' = calls (+) SetToBag({Call("write", "pending", "(not run)", "(pending)")})
         ELSE \E exec \in ExecOutcomes :
                calls' = calls (+) SetToBag({Call("settled", "(unavailable)", exec,
                                                  FallbackCopyToClipboard(exec))})
  /\ lastCopy' = NoCopy
  /\ UNCHANGED <<props, isSuccess, showToast, resetTimers, toastTimers>>

\* navigator.clipboard.writeText settles: return true, or the fallback.
WriteSettles(call) ==
  /\ call.pc = "write"
  /\ \E write \in {"resolved", "rejected"} :
       IF FallsBack(write)
         THEN \E exec \in ExecOutcomes :
                calls' = (calls (-) SetToBag({call})) (+)
                         SetToBag({Call("settled", write, exec, FallbackCopyToClipboard(exec))})
         ELSE calls' = (calls (-) SetToBag({call})) (+)
                       SetToBag({Call("settled", write, "(not run)", "true")})
  /\ lastCopy' = NoCopy
  /\ UNCHANGED <<props, isCopying, isSuccess, error, showToast, resetTimers, toastTimers,
                 nCopies>>

\* copy() after its await: the success branch, or the catch block, and finally.
Resume(call) ==
  /\ call.pc = "settled"
  /\ calls' = calls (-) SetToBag({call})
  /\ isCopying' = FALSE
  /\ IF call.value # "rejected" /\ IfSuccess(call.value)
       THEN /\ isSuccess' = TRUE
            /\ showToast' = TRUE
            /\ toastTimers' = toastTimers + 1
            /\ resetTimers' = resetTimers + 1
            /\ lastCopy' = Settled(call, TRUE,
                 <<"setIsSuccess(true)">> \o Invoke("onAnalytics")
                   \o <<"onSuccess", "setShowToast(true)">> \o Invoke("onCopy"),
                 <<isSuccess, showToast, resetTimers, toastTimers>>)
            /\ UNCHANGED error
       ELSE /\ error' = IF call.value = "rejected" THEN "NotAllowedError"
                        ELSE "Failed to copy to clipboard"
            /\ lastCopy' = Settled(call, FALSE, <<"setError">> \o Invoke("onError"),
                                   <<isSuccess, showToast, resetTimers, toastTimers>>)
            /\ UNCHANGED <<isSuccess, showToast, resetTimers, toastTimers>>
  /\ UNCHANGED <<props, nCopies>>

\* setTimeout(() => setIsSuccess(false), 2000) fires.
ResetFires ==
  /\ resetTimers > 0
  /\ resetTimers' = resetTimers - 1
  /\ isSuccess' = FALSE
  /\ lastCopy' = NoCopy
  /\ UNCHANGED <<props, isCopying, error, showToast, toastTimers, calls, nCopies>>

\* setTimeout(() => setShowToast(false), toastDuration) fires.
ToastFires ==
  /\ toastTimers > 0
  /\ toastTimers' = toastTimers - 1
  /\ showToast' = FALSE
  /\ lastCopy' = NoCopy
  /\ UNCHANGED <<props, isCopying, isSuccess, error, resetTimers, calls, nCopies>>

----------------------------------------------------------------------------
(* Heading extraction and heading ids: extractMarkdownHeadings with        *)
(* generateSlug, extractHeadings, and the extraction effect of useTOC with *)
(* generateHeadingId.  A text is the sequence of its characters; one step  *)
(* handles one heading, index being the number of headings handled.        *)

VARIABLES
  extractor,      \* which of the three extractions runs
  els,            \* the headings found, in document order: text and id attribute
  extracted       \* the list being built: id, text, level (rule: how the id was made)

MaxLen == 3
MaxEls == 3

\* .substring(0, 50)
SlugLimit == 50

\* trim() with the blank and the tab, replace(/^-+|-+$/g, '') with the
\* hyphen: no character of the set at either end.
RECURSIVE Strip(_, _)
Strip(text, set) ==
  IF text = <<>> THEN <<>>
  ELSE IF Head(text) \in set THEN Strip(Tail(text), set)
  ELSE IF text[Len(text)] \in set THEN Strip(SubSeq(text, 1, Len(text) - 1), set)
  ELSE text

\* The replacements both slug functions start with: toLowerCase(),
\* replace(/[^a-z0-9\s-]/g, ''), replace(/\s+/g, '-'), replace(/-+/g, '-').
Hyphenated(text) ==
  LET lower == <<"a", "b", "c", "d", "e", "f", "g", "h", "i", "j", "k", "l", "m",
                 "n", "o", "p", "q", "r", "s", "t", "u", "v", "w", "x", "y", "z">>
      upper == <<"A", "B", "C", "D", "E", "F", "G", "H", "I", "J", "K", "L", "M",
                 "N", "O", "P", "Q", "R", "S", "T", "U", "V", "W", "X", "Y", "Z">>
      digits == {"0", "1", "2", "3", "4", "5", "6", "7", "8", "9"}
      ToLowerCase(ch) ==
        IF \E k \in 1..26 : upper[k] = ch
          THEN lower[CHOOSE k \in 1..26 : upper[k] = ch] ELSE ch
      Kept(ch) == ch \in {lower[k] : k \in 1..26} \cup digits \cup {" ", "\t", "-"}
      \* every maximal run of characters of the set becomes one hyphen
      RECURSIVE Squeeze(_, _)
      Squeeze(t, set) ==
        IF t = <<>> THEN <<>>
        ELSE IF Head(t) \notin set THEN <<Head(t)>> \o Squeeze(Tail(t), set)
        ELSE IF Len(t) > 1 /\ t[2] \in set THEN Squeeze(Tail(t), set)
        ELSE <<"-">> \o Squeeze(Tail(t), set)
  IN  Squeeze(Squeeze(SelectSeq([n \in 1..Len(text) |-> ToLowerCase(text[n])], Kept),
                      {" ", "\t"}),
              {"-"})

\* `heading-${index}`
HeadingIndex(index) == <<"h", "e", "a", "d", "i", "n", "g", "-", ToString(index)>>

\* generateSlug(text, index), the Markdown path
GenerateSlug(text, index) ==
  LET slug == Strip(Hyphenated(text), {"-"})
  IN  IF slug # <<>> THEN slug ELSE HeadingIndex(index)

\* generateHeadingId(text, index), the DOM path: the hyphens are trimmed,
\* then the slug is cut.
GenerateHeadingId(text, index) ==
  LET trimmed == Strip(Hyphenated(text), {"-"})
      slug == IF Len(trimmed) > SlugLimit THEN SubSeq(trimmed, 1, SlugLimit) ELSE trimmed
  IN  IF slug # <<>> THEN slug ELSE HeadingIndex(index)

\* The documents: one heading of any text, or up to MaxEls headings titled
\* "Intro", "!?" or "heading-1", some of them with an id attribute.  The
\* texts are those of at most MaxLen characters out of a letter, a capital,
\* a blank, a hyphen and a character the slug drops, and the texts whose
\* slug is cut: SlugLimit - 1 letters followed by at most two characters.
Documents ==
  LET chars == {"a", "B", " ", "-", "!"}
      texts == UNION {[1..n -> chars] : n \in 0..MaxLen}
                 \cup {[n \in 1..(SlugLimit - 1) |-> "a"] \o tail :
                         tail \in UNION {[1..n -> chars] : n \in 0..2}}
  IN  {<<[text |-> t, id |-> <<>>, level |-> 2]>> : t \in texts}
        \cup UNION {[1..n -> [text : {<<"I", "n", "t", "r", "o">>, <<"!", "?">>,
                                      <<"h", "e", "a", "d", "i", "n", "g", "-", "1">>},
                              id : {<<>>, <<"i", "n", "t", "r", "o">>}, level : {2, 3}]] :
                    n \in 0..MaxEls}

\* A Markdown heading line has no id attribute and a text of one character
\* at least (.+).  extracted holds {id, text, level} and, as a note, the
\* rule that made the id.
ExtractInit ==
  /\ extractor \in {"extractMarkdownHeadings", "extractHeadings", "useTOC"}
  /\ els \in Documents
  /\ extractor = "extractMarkdownHeadings" =>
       \A n \in 1..Len(els) : els[n].id = <<>> /\ els[n].text # <<>>
  /\ extracted = <<>>

\* extractMarkdownHeadings: one matching line
ExtractMarkdownHeading ==
  /\ extractor = "extractMarkdownHeadings"
  /\ Len(extracted) < Len(els)
  /\ LET index == Len(extracted)
         el == els[index + 1]
         text == Strip(el.text, {" ", "\t"})
     IN  extracted' = Append(extracted, [id |-> GenerateSlug(text, index), text |-> text,
                                        level |-> el.level, rule |-> "generateSlug"])
  /\ UNCHANGED <<extractor, els>>

\* extractHeadings: one match of the regex.  Its first [^>]* is greedy and
\* takes the whole tag, so the optional id group never takes part in a match
\* and match[2] is undefined: the id is `heading-${index}` with or without
\* an id attribute.
ExtractHeading ==
  /\ extractor = "extractHeadings"
  /\ Len(extracted) < Len(els)
  /\ LET index == Len(extracted)
         el == els[index + 1]
     IN  extracted' = Append(extracted, [id |-> HeadingIndex(index),
                                        text |-> Strip(el.text, {" ", "\t"}),
                                        level |-> el.level, rule |-> "index"])
  /\ UNCHANGED <<extractor, els>>

\* useTOC: one element of querySelectorAll; an id it makes is set on the element.
ExtractElement ==
  /\ extractor = "useTOC"
  /\ Len(extracted) < Len(els)
  /\ LET index == Len(extracted)
         el == els[index + 1]
         text == Strip(el.text, {" ", "\t"})
         id == IF el.id # <<>> THEN el.id ELSE GenerateHeadingId(text, index)
     IN  /\ extracted' = Append(extracted,
                                [id |-> id, text |-> text, level |-> el.level,
                                 rule |-> IF el.id # <<>> THEN "attribute"
                                          ELSE "generateHeadingId"])
         /\ els' = [els EXCEPT ![index + 1].id = id]
  /\ UNCHANGED extractor

----------------------------------------------------------------------------

(* convertTable(table), one step per row of rows.forEach.  A row is the    *)
(* sequence of its cells, a cell its tag (th or td) and its trimmed text;  *)
(* markdown is the sequence of the lines written so far ('\n' first).      *)

VARIABLES
  rows,             \* table.querySelectorAll('tr')
  rowIndex,         \* the rows handled so far
  markdown,         \* the lines written so far
  headerProcessed

MaxRows == 3
MaxCells == 2

\* `| ${cells.join(' | ')} |`
RECURSIVE PipeRow(_)
PipeRow(cells) ==
  IF Len(cells) = 1 THEN "| " \o cells[1] \o " |"
  ELSE "| " \o cells[1] \o " " \o PipeRow(Tail(cells))

\* The tables of 0..MaxRows rows of 1..MaxCells cells, each cell a th or a
\* td; the text of a cell names its row and column.
Tables ==
  {[r \in 1..Len(shape) |->
      [c \in 1..Len(shape[r]) |->
         [tag |-> shape[r][c], text |-> "r" \o ToString(r) \o "c" \o ToString(c)]]] :
     shape \in UNION {[1..n -> UNION {[1..k -> {"th", "td"}] : k \in 1..MaxCells}] :
                        n \in 0..MaxRows}}

\* One call of the forEach callback: the row's line, then the separator if
\* (!headerProcessed && (row.querySelector('th') || index === 0)).
ConvertRow ==
  /\ rowIndex < Len(rows)
  /\ LET row == rows[rowIndex + 1]
         line == PipeRow([c \in 1..Len(row) |-> row[c].text])
         separator == PipeRow([c \in 1..Len(row) |-> "---"])
         hasTh == \E c \in 1..Len(row) : row[c].tag = "th"
     IN  IF ~headerProcessed /\ (hasTh \/ rowIndex = 0)
           THEN markdown' = markdown \o <<line, separator>> /\ headerProcessed' = TRUE
           ELSE markdown' = Append(markdown, line) /\ UNCHANGED headerProcessed
  /\ rowIndex' = rowIndex + 1
  /\ UNCHANGED rows

----------------------------------------------------------------------------

(* createInMemoryStorage(): save, getAll and clear on the events array,    *)
(* called in any order.  The three are async functions without an await,   *)
(* so each runs to its end in one step.                                    *)

VARIABLES
  made,          \* the calls made so far, a save with its event
  snapshot        \* the array the last getAll returned

MaxCalls == 5

\* save: events.push(event)
StorageSave ==
  /\ Len(made) < MaxCalls
  /\ \E action \in {"copy", "view"} :
       LET event == [NoEvent EXCEPT !.action = action] IN
         /\ events' = Save(events, event, NoError)
         /\ made' = Append(made, [name |-> "save", event |-> event])
  /\ UNCHANGED snapshot

\* getAll: [...events], a copy
GetAll ==
  /\ Len(made) < MaxCalls
  /\ snapshot' = events
  /\ made' = Append(made, [name |-> "getAll", event |-> NoEvent])

\* clear: events.length = 0
Clear ==
  /\ Len(made) < MaxCalls
  /\ events' = <<>>
  /\ made' = Append(made, [name |-> "clear", event |-> NoEvent])
  /\ UNCHANGED snapshot

----------------------------------------------------------------------------

(* countWords, calculateReadingTime and the record generateMarkdown         *)
(* returns.  A text is a string; one step is one call.                      *)

VARIABLES
  textInput,      \* the call: the function and its arguments
  textOutput      \* what it returned

\* calculateReadingTime(text, wordsPerMinute = 200)
DefaultWordsPerMinute == 200

\* countWords(text): replace(/[^\w\s]/g, ''), split(/\s+/), the pieces that
\* are not empty.  A piece starts at a character that is not white space
\* and follows white space or the start of the text.
CountWords(text) ==
  LET word == {"a", "b", "c", "d", "e", "f", "g", "h", "i", "j", "k", "l", "m", "n", "o",
               "p", "q", "r", "s", "t", "u", "v", "w", "x", "y", "z", "A", "B", "C", "D",
               "E", "F", "G", "H", "I", "J", "K", "L", "M", "N", "O", "P", "Q", "R", "S",
               "T", "U", "V", "W", "X", "Y", "Z", "0", "1", "2", "3", "4", "5", "6", "7",
               "8", "9", "_"}
      space == {" ", "\t", "\n", "\r"}
      WordOrSpace(ch) == ch \in word \cup space
      stripped == SelectSeq(text, WordOrSpace)
  IN  Cardinality({n \in 1..Len(stripped) :
                     /\ SubSeq(stripped, n, n) \notin space
                     /\ n = 1 \/ SubSeq(stripped, n - 1, n - 1) \in space})

\* Math.max(1, Math.ceil(words / wordsPerMinute)): a floor of one minute
AtLeastOneMinute(text, wordsPerMinute) ==
  IF CountWords(text) <= wordsPerMinute THEN 1 ELSE Ceil(CountWords(text), wordsPerMinute)

\* calculateReadingTime(text, wordsPerMinute)
CalculateReadingTime(text, wordsPerMinute) == Ceil(CountWords(text), wordsPerMinute)

\* A document, parts.join('\n').trim(), with its word count and its
\* reading time: countWords(markdown), calculateReadingTime(markdown).
MarkdownOutput(lines) ==
  LET RECURSIVE Join(_)
      Join(rest) ==
        IF rest = <<>> THEN ""
        ELSE IF Len(rest) = 1 THEN rest[1]
        ELSE rest[1] \o "\n" \o Join(Tail(rest))
  IN  [markdown |-> lines,
       wordCount |-> CountWords(Join(lines)),
       readingTime |-> CalculateReadingTime(Join(lines), DefaultWordsPerMinute)]

\* generateMarkdown(content)
GenerateMarkdown(content) == MarkdownOutput(GenerateMarkdownString(content))

\* generateMarkdownFromContent(content) of the copy hook, for a record: no
\* Modified line, no Reading Time line, and the body is converted when it
\* includes a '<' and a '>'.
GenerateMarkdownFromContent(content) ==
  LET Includes(ch) ==
        \E n \in 1..Len(content.content) :
          \/ content.content[n].kind \in {"open", "close"}
          \/ SelectSeq(content.content[n].text, LAMBDA c : c = ch) # ""
      prefix == IF content.promptPrefix # Undef /\ Truthy(Trim(content.promptPrefix))
                  THEN <<Trim(content.promptPrefix), "">> ELSE <<>>
      title == <<"# " \o content.title, "">>
      excerpt == IF Truthy(content.excerpt) THEN <<"> " \o content.excerpt, "">> ELSE <<>>
      meta ==
        <<"---", "- **Source**: " \o content.url>>
        \o (IF Truthy(content.date) THEN <<"- **Date**: " \o content.date>> ELSE <<>>)
        \o (IF Truthy(content.author) THEN <<"- **Author**: " \o content.author>> ELSE <<>>)
        \o (IF Len(content.categories) # 0
              THEN <<"- **Categories**: " \o JoinComma(content.categories)>> ELSE <<>>)
        \o (IF Len(content.tags) # 0
              THEN <<"- **Tags**: " \o JoinComma(content.tags)>> ELSE <<>>)
        \o <<"---", "">>
      body == IF content.content # <<>>
                THEN IF Includes("<") /\ Includes(">")
                       THEN HtmlToMarkdown(content.content)
                       ELSE <<PlainText(content.content)>>
                ELSE <<>>
  IN  TrimLines(prefix \o title \o excerpt \o meta \o body)

NotReturned == [markdown |-> <<>>, wordCount |-> -1, readingTime |-> -1]

\* The calls.  calculateReadingTime: a text of n pieces, each piece one word
\* with white space or punctuation around it, or punctuation alone; words
\* is the number of words the text is made of.  generateMarkdown and
\* useLLMCopy: the content records, and one whose body has 250 words.
TextCalls ==
  LET RECURSIVE Repeat(_, _)
      Repeat(piece, n) ==
        IF n = 0 THEN ""
        ELSE LET half == Repeat(piece, n \div 2)
             IN  half \o half \o (IF n % 2 = 1 THEN piece ELSE "")
      pieces == {[text |-> "word ", words |-> 1], [text |-> " it's\t", words |-> 1],
                 [text |-> "snake_case\n", words |-> 1], [text |-> "a-b,  ", words |-> 1],
                 [text |-> "!? ... ", words |-> 0]}
  IN  {[fn |-> "calculateReadingTime", text |-> Repeat(p.text, n), words |-> n * p.words,
        wordsPerMinute |-> w, content |-> NoRecord] :
         p \in pieces, n \in {0, 1, 2, 199, 200, 201, 399, 400, 401}, w \in {1, 2, 200, 250}}
      \cup {[fn |-> f, text |-> "", words |-> 0,
             wordsPerMinute |-> DefaultWordsPerMinute, content |-> r] :
              f \in {"generateMarkdown", "useLLMCopy"},
              r \in ContentRecords
                      \cup {[NoRecord EXCEPT !.title = "Hello World", !.readingTime = 1,
                                             !.url = "https://site.example/hello",
                                             !.content = <<Tok("text", "", Repeat("word ", 250))>>]}}

\* calculateReadingTime(text, wordsPerMinute) returns; wordCount is what
\* countWords(text) returns to it.
ReadingTimeReturns ==
  /\ textInput.fn = "calculateReadingTime"
  /\ textOutput = NotReturned
  /\ textOutput' = [markdown |-> <<>>, wordCount |-> CountWords(textInput.text),
                    readingTime |-> CalculateReadingTime(textInput.text,
                                                         textInput.wordsPerMinute)]
  /\ UNCHANGED textInput

\* generateMarkdown(content) returns
MarkdownReturns ==
  /\ textInput.fn = "generateMarkdown"
  /\ textOutput = NotReturned
  /\ textOutput' = GenerateMarkdown(textInput.content)
  /\ UNCHANGED textInput

\* useLLMCopy({content}) renders: the markdown it copies, shows and
\* downloads, with the numbers useContentStats(content) computes from it.
HookRenders ==
  /\ textInput.fn = "useLLMCopy"
  /\ textOutput = NotReturned
  /\ textOutput' = MarkdownOutput(GenerateMarkdownFromContent(textInput.content))
  /\ UNCHANGED textInput

----------------------------------------------------------------------------

(* Specifications.  The HTTP handlers, the tree builder, the tracker and   *)
(* the copy hook share no state: each is checked with the others at rest.  *)
(* The handlers without state share nothing with the analytics route       *)
(* handler but its options, so their requests are taken before its first   *)
(* POST, and a response is sent before the next step.                      *)

\* The variables of the text functions and of the in-memory storage
utilVars ==
  <<extractor, els, extracted, rows, rowIndex, markdown, headerProcessed, made, snapshot,
    textInput, textOutput>>

vars == <<analyticsVars, handlerVars, tocVars, trackerVars, copyVars, utilVars>>

\* The initial states of the specification of one part: the others start
\* in one fixed initial state of theirs.
Start(part) ==
  /\ sendBeacon \in (IF part = "track" THEN BOOLEAN ELSE {TRUE})
  /\ pendingRef = {} /\ fetching = {} /\ delivered = <<>> /\ nTracks = 0
  /\ lastTrack = [outcome |-> "(none)", key |-> "", event |-> [action |-> "(none)", contentId |-> ""],
                  logged |-> NoError, promise |-> "(none)", had |-> {}]
  /\ AnalyticsInit /\ httpResp = NoHttpResp /\ (part \notin {"http", "limiter"} => options.rateLimit = 0)
  /\ (part = "limiter" => options.rateLimit # 0)
  /\ TocInit /\ (part # "toc" => headings = <<>>)
  /\ TrackerInit
  /\ caller \in (IF part \in {"hook", "life"} THEN {"default", "memoized"} ELSE {"memoized"})
  /\ container \in (IF part \in {"hook", "life"} THEN SUBSET HeadingIds ELSE {HeadingIds})
  /\ tracked = {} /\ rendered = {} /\ observers = <<>> /\ due = {}
  /\ phase = "mount" /\ changed = {}
  /\ CopyInit /\ (part # "copy" => props = {})
  /\ ExtractInit /\ (part # "text" => extractor = "useTOC" /\ els = <<>>)
  /\ rows \in (IF part = "text" /\ els = <<>> THEN Tables ELSE {<<>>})
  /\ rowIndex = 0 /\ markdown = <<"">> /\ headerProcessed = FALSE
  /\ made = <<>> /\ snapshot = <<>>
  /\ textInput \in (IF part = "text" /\ els = <<>> /\ rows = <<>> /\ extractor = "useTOC"
                      THEN TextCalls
                      ELSE {[fn |-> "(none)", text |-> "", words |-> 0,
                             wordsPerMinute |-> DefaultWordsPerMinute, content |-> NoRecord]})
  /\ textOutput = NotReturned

HttpNext ==
  \/ AwaitingRequest /\ Tick /\ UNCHANGED <<handlerVars, tocVars, trackerVars, copyVars, utilVars>>
  \/ AwaitingRequest /\ ReceiveOptions
       /\ UNCHANGED <<handlerVars, tocVars, trackerVars, copyVars, utilVars>>
  \/ AwaitingRequest /\ ReceiveOther
       /\ UNCHANGED <<handlerVars, tocVars, trackerVars, copyVars, utilVars>>
  \/ AwaitingRequest /\ nReq < MaxPosts /\ ReceivePost
       /\ UNCHANGED <<admittedAt, handlerVars, tocVars, trackerVars, copyVars, utilVars>>
  \/ \E inv \in BagToSet(inflight) :
       JsonSettles(inv) /\ UNCHANGED <<handlerVars, tocVars, trackerVars, copyVars, utilVars>>
  \/ \E inv \in BagToSet(inflight) :
       SaveSettles(inv) /\ UNCHANGED <<handlerVars, tocVars, trackerVars, copyVars, utilVars>>
  \/ AnalyticsUntouched /\ ServeLLMsTxt
       /\ UNCHANGED <<sendBeacon, pendingRef, fetching, delivered, nTracks, lastTrack,
                      analyticsVars, tocVars, trackerVars, copyVars, utilVars>>
  \/ AnalyticsUntouched /\ ServeLLMsTxtPage
       /\ UNCHANGED <<sendBeacon, pendingRef, fetching, delivered, nTracks, lastTrack,
                      analyticsVars, tocVars, trackerVars, copyVars, utilVars>>
  \/ AnalyticsUntouched /\ ServeMarkdownRoute
       /\ UNCHANGED <<sendBeacon, pendingRef, fetching, delivered, nTracks, lastTrack,
                      analyticsVars, tocVars, trackerVars, copyVars, utilVars>>
  \/ AnalyticsUntouched /\ ServeMiddleware
       /\ UNCHANGED <<sendBeacon, pendingRef, fetching, delivered, nTracks, lastTrack,
                      analyticsVars, tocVars, trackerVars, copyVars, utilVars>>
  \/ AnalyticsUntouched /\ ServeAnalyticsPage
       /\ UNCHANGED <<sendBeacon, pendingRef, fetching, delivered, nTracks, lastTrack,
                      analyticsVars, tocVars, trackerVars, copyVars, utilVars>>
  \/ Sent /\ UNCHANGED <<sendBeacon, pendingRef, fetching, delivered, nTracks, lastTrack,
                         analyticsVars, tocVars, trackerVars, copyVars, utilVars>>

SpecHttp == Start("http") /\ [][HttpNext]_vars

\* The analytics handler alone, over more requests: every POST carries the
\* same well-formed body, and a failure is always the same exception.
LimiterNext ==
  \/ Tick /\ UNCHANGED <<handlerVars, tocVars, trackerVars, copyVars, utilVars>>
  \/ nReq < MaxWindowPosts /\ ReceivePost
       /\ (\A inv \in BagToSet(inflight') : inv.body.kind = "object" /\ inv.body.action = "purchase")
       /\ admittedAt' = [k \in ClientKeys |->
                            IF requestCounts'[k] # requestCounts[k] /\ lastResp'.resp.status # 429
                              THEN Append(admittedAt[k], now) ELSE admittedAt[k]]
       /\ UNCHANGED <<handlerVars, tocVars, trackerVars, copyVars, utilVars>>
  \/ \E inv \in BagToSet(inflight) :
       JsonSettles(inv) /\ UNCHANGED <<handlerVars, tocVars, trackerVars, copyVars, utilVars>>
  \/ \E inv \in BagToSet(inflight) :
       SaveSettles(inv) /\ (lastResp'.req.thrown \in {NoError, "disk full"})
         /\ UNCHANGED <<handlerVars, tocVars, trackerVars, copyVars, utilVars>>

SpecLimiter == Start("limiter") /\ [][LimiterNext]_vars

TocNext == Iterate /\ UNCHANGED <<analyticsVars, handlerVars, trackerVars, copyVars, utilVars>>

SpecTOC == Start("toc") /\ [][TocNext]_vars

TrackerNext ==
  \/ Notify /\ UNCHANGED <<caller, container, tracked, rendered, observers, phase, changed, due,
                           analyticsVars, handlerVars, tocVars, copyVars, utilVars>>
  \/ ScrollTo /\ UNCHANGED <<caller, container, tracked, rendered, observers, phase, changed, due,
                             analyticsVars, handlerVars, tocVars, copyVars, utilVars>>

SpecTracker == Start("tracker") /\ [][TrackerNext]_vars

\* useTOC from mount to unmount, without notifications and scrollTo calls.
\* React runs what it has scheduled: a render that is pending, and the
\* cleanups and effects of a commit.
LifeNext ==
  \/ ParentRenders /\ UNCHANGED <<analyticsVars, handlerVars, tocVars, copyVars, utilVars>>
  \/ Render /\ UNCHANGED <<analyticsVars, handlerVars, tocVars, copyVars, utilVars>>
  \/ Cleanup /\ UNCHANGED <<analyticsVars, handlerVars, tocVars, copyVars, utilVars>>
  \/ ExtractEffect /\ UNCHANGED <<analyticsVars, handlerVars, tocVars, copyVars, utilVars>>
  \/ ObserveEffect /\ UNCHANGED <<analyticsVars, handlerVars, tocVars, copyVars, utilVars>>
  \/ Unmount /\ UNCHANGED <<analyticsVars, handlerVars, tocVars, copyVars, utilVars>>

SpecLife ==
  /\ Start("life") /\ [][LifeNext]_vars
  /\ WF_trackerVars(Render) /\ WF_trackerVars(Cleanup)
  /\ WF_trackerVars(ExtractEffect) /\ WF_trackerVars(ObserveEffect)

\* useTOC with its observer delivering entries of the targets it observes
\* that are in the container, one entry at a time, and with scrollTo called
\* once; of the headings, the document has those of the container.  A new
\* active id makes React render again.
HookNext ==
  \/ ParentRenders /\ UNCHANGED <<analyticsVars, handlerVars, tocVars, copyVars, utilVars>>
  \/ Render /\ UNCHANGED <<analyticsVars, handlerVars, tocVars, copyVars, utilVars>>
  \/ Cleanup /\ UNCHANGED <<analyticsVars, handlerVars, tocVars, copyVars, utilVars>>
  \/ ExtractEffect /\ UNCHANGED <<analyticsVars, handlerVars, tocVars, copyVars, utilVars>>
  \/ ObserveEffect /\ UNCHANGED <<analyticsVars, handlerVars, tocVars, copyVars, utilVars>>
  \/ Unmount /\ UNCHANGED <<analyticsVars, handlerVars, tocVars, copyVars, utilVars>>
  \/ /\ phase \in {"idle", "render"} /\ observers # <<>>
     /\ Notify
     /\ Len(lastOp'.batch) = 1
     /\ lastOp'.batch[1].target \in observers[Len(observers)] \cap container
     /\ phase' = IF activeId' # activeId THEN "render" ELSE phase
     /\ UNCHANGED <<caller, container, tracked, rendered, observers, changed, due,
                    analyticsVars, handlerVars, tocVars, copyVars, utilVars>>
  \/ /\ phase \in {"idle", "render"} /\ scrolled = <<>>
     /\ ScrollTo
     /\ (lastOp'.id \in HeadingIds => lastOp'.id \in container)
     /\ phase' = IF activeId' # activeId THEN "render" ELSE phase
     /\ UNCHANGED <<caller, container, tracked, rendered, observers, changed, due,
                    analyticsVars, handlerVars, tocVars, copyVars, utilVars>>

SpecHook == Start("hook") /\ [][HookNext]_vars

\* useAnalytics on a page: the clock, calls of track and their fetches.
TrackNext ==
  \/ Tick /\ UNCHANGED <<handlerVars, tocVars, trackerVars, copyVars, utilVars>>
  \/ Track /\ UNCHANGED <<httpResp, analyticsVars, tocVars, trackerVars, copyVars, utilVars>>
  \/ \E call \in fetching :
       FetchSettles(call)
         /\ UNCHANGED <<httpResp, analyticsVars, tocVars, trackerVars, copyVars, utilVars>>

SpecTrack == Start("track") /\ [][TrackNext]_vars

CopyNext ==
  \/ Copy /\ UNCHANGED <<analyticsVars, handlerVars, tocVars, trackerVars, utilVars>>
  \/ \E call \in BagToSet(calls) :
       WriteSettles(call) /\ UNCHANGED <<analyticsVars, handlerVars, tocVars, trackerVars, utilVars>>
  \/ \E call \in BagToSet(calls) :
       Resume(call) /\ UNCHANGED <<analyticsVars, handlerVars, tocVars, trackerVars, utilVars>>
  \/ ResetFires /\ UNCHANGED <<analyticsVars, handlerVars, tocVars, trackerVars, utilVars>>
  \/ ToastFires /\ UNCHANGED <<analyticsVars, handlerVars, tocVars, trackerVars, utilVars>>

SpecCopy == Start("copy") /\ [][CopyNext]_vars

TextNext ==
  \/ ExtractMarkdownHeading
       /\ UNCHANGED <<analyticsVars, handlerVars, tocVars, trackerVars, copyVars, rows, rowIndex, markdown, headerProcessed, made, snapshot,
                      textInput, textOutput>>
  \/ ExtractHeading
       /\ UNCHANGED <<analyticsVars, handlerVars, tocVars, trackerVars, copyVars, rows, rowIndex, markdown, headerProcessed, made, snapshot,
                      textInput, textOutput>>
  \/ ExtractElement
       /\ UNCHANGED <<analyticsVars, handlerVars, tocVars, trackerVars, copyVars, rows, rowIndex, markdown, headerProcessed, made, snapshot,
                      textInput, textOutput>>
  \/ ConvertRow
       /\ UNCHANGED <<analyticsVars, handlerVars, tocVars, trackerVars, copyVars, extractor, els, extracted, made, snapshot,
                      textInput, textOutput>>
  \/ ReadingTimeReturns
       /\ UNCHANGED <<analyticsVars, handlerVars, tocVars, trackerVars, copyVars, extractor, els,
                      extracted, rows, rowIndex, markdown, headerProcessed, made, snapshot>>
  \/ MarkdownReturns
       /\ UNCHANGED <<analyticsVars, handlerVars, tocVars, trackerVars, copyVars, extractor, els,
                      extracted, rows, rowIndex, markdown, headerProcessed, made, snapshot>>
  \/ HookRenders
       /\ UNCHANGED <<analyticsVars, handlerVars, tocVars, trackerVars, copyVars, extractor, els,
                      extracted, rows, rowIndex, markdown, headerProcessed, made, snapshot>>

SpecText == Start("text") /\ [][TextNext]_vars

StorageNext ==
  \/ StorageSave
       /\ UNCHANGED <<options, now, requestCounts, inflight, lastResp, nReq, firstPost, postIdx,
                      admitted, admittedAt, handlerVars, tocVars, trackerVars, copyVars, extractor, els,
                      extracted, rows, rowIndex, markdown, headerProcessed, textInput,
                      textOutput>>
  \/ GetAll
       /\ UNCHANGED <<analyticsVars, handlerVars, tocVars, trackerVars, copyVars, extractor, els, extracted, rows, rowIndex, markdown, headerProcessed, textInput,
                      textOutput>>
  \/ Clear
       /\ UNCHANGED <<options, now, requestCounts, inflight, lastResp, nReq, firstPost, postIdx,
                      admitted, admittedAt, handlerVars, tocVars, trackerVars, copyVars, extractor, els,
                      extracted, rows, rowIndex, markdown, headerProcessed, textInput,
                      textOutput>>

SpecStorage == Start("storage") /\ [][StorageNext]_vars

----------------------------------------------------------------------------
(* Properties of the analytics handler *)

Min(a, b) == IF a <= b THEN a ELSE b

InLog(event) == \E n \in 1..Len(events) : events[n] = event

\* Of the POSTs of one client key that arrive in the window opened by its
\* first POST, the limiter lets through exactly the first rateLimit ones.
FirstNAdmitted ==
  options.rateLimit # 0 =>
    \A k \in ClientKeys : admitted[k] = Min(postIdx[k], options.rateLimit)

\* A POST the limiter let through gets 200 when nothing was thrown.
AdmittedGets200 ==
  (lastResp.req.method = "POST" /\ lastResp.resp.status # 429
     /\ lastResp.req.thrown = NoError) => lastResp.resp.status = 200

\* C1 (as claimed): with rateLimit = N >= 1, of the POSTs of one client key
\* that fall within one window the first N are not rate-limited (200 when the
\* body parses and storage succeeds) and every later one gets 429 with a
\* Retry-After header that is a positive number of seconds.
C1_RateLimitPositiveRetryAfter ==
  /\ FirstNAdmitted
  /\ AdmittedGets200
  /\ (lastResp.resp.status = 429 /\ lastResp.req.inWindow) => lastResp.resp.retryAfter > 0

\* C2: an admitted POST returns 200 {success: true, event} exactly when its
\* event was appended (exactly one event, stamped with the server clock at
\* handling time and never with the body's timestamp) and 500 {success:
\* false, error} exactly when parsing or storage.save threw; it always
\* returns one of the two.
C2_TrackedIffAppended ==
  (lastResp.req.method = "POST" /\ lastResp.resp.status # 429) =>
    /\ lastResp.resp.status \in {200, 500}
    /\ lastResp.resp.status = 200 <=> lastResp.req.appended = 1
    /\ lastResp.resp.status = 500 <=> lastResp.req.thrown # NoError
    /\ lastResp.resp.status = 200 =>
         /\ lastResp.resp.success = "true"
         /\ InLog(lastResp.resp.event)
         /\ lastResp.resp.event.timestamp = lastResp.req.stampedAt
         /\ lastResp.resp.event.timestamp # lastResp.req.body.timestamp
    /\ lastResp.resp.status = 500 =>
         /\ lastResp.resp.success = "false"
         /\ lastResp.resp.error = "Failed to track event"
         /\ lastResp.req.appended = 0

\* C2 witness: a 200 for a body that carried its own timestamp.
C2_Witness ==
  /\ lastResp.resp.status = 200
  /\ lastResp.req.body.timestamp = ForgedTimestamp
  /\ lastResp.req.stampedAt > 0

----------------------------------------------------------------------------
(* Properties of the markdown handler and of the handlers' catch blocks *)

\* C3: the markdown-by-slug handler answers 404 "Content not found" exactly
\* when the lookup yields null, and 200 with Content-Type text/markdown;
\* charset=utf-8 and the assembler's markdown of the returned record exactly
\* when the lookup yields a record (and nothing is thrown); never 200 for a
\* missing record, never 404 for a present one.
C3_NotFoundIffNull ==
  httpResp.handler = "createMarkdownHandler" =>
    /\ httpResp.resp.status = 404 <=> httpResp.lookup.kind = "null"
    /\ httpResp.resp.status = 404 => httpResp.resp.body = <<"Content not found">>
    /\ httpResp.resp.status = 200 <=>
         (httpResp.lookup.kind = "record" /\ httpResp.thrown = NoError)
    /\ httpResp.resp.status = 200 =>
         /\ httpResp.resp.contentType = "text/markdown; charset=utf-8"
         /\ httpResp.resp.body = GenerateMarkdownString(httpResp.lookup.value)
         /\ httpResp.resp.body[1] \in {"# " \o httpResp.lookup.value.title,
                                       Trim(httpResp.lookup.value.promptPrefix)}

\* C3 witness: a 200 for a record with an HTML body and a prompt prefix.
C3_Witness ==
  /\ httpResp.handler = "createMarkdownHandler"
  /\ httpResp.resp.status = 200
  /\ httpResp.lookup.value.content = HtmlContent
  /\ httpResp.resp.body[1] = "Summarize this page:"
  /\ httpResp.resp.body[Len(httpResp.resp.body)] = "More text."

\* The fixed message of each handler's catch block.
GenericMessage(handler) ==
  IF handler \in {"createLLMsTxtHandler", "createLLMsTxtPageHandler"}
    THEN "Error generating llms.txt"
    ELSE "Error generating markdown"

\* C4: in every handler an exception raised by a callback or during assembly
\* surfaces as a 500 whose body is the handler's fixed message and nothing
\* else, so that the response does not depend on which exception was thrown;
\* a handler that caught nothing does not answer with that response.
C4_GenericServerError ==
  /\ (httpResp.thrown # NoError /\ httpResp.handler # "createAnalyticsPageHandler") =>
       httpResp.resp = [status |-> 500, body |-> <<GenericMessage(httpResp.handler)>>,
                        contentType |-> Undef, cacheControl |-> Undef, robots |-> Undef,
                        allowOrigin |-> Undef, allowMethods |-> Undef]
  /\ (httpResp.thrown # NoError /\ httpResp.handler = "createAnalyticsPageHandler") =>
       /\ httpResp.json.status = 500
       /\ httpResp.json.success = "false"
       /\ httpResp.json.error = "Failed to track event"
       /\ httpResp.json.event = NoEvent
  /\ lastResp.req.thrown # NoError =>
       /\ lastResp.resp.status = 500
       /\ lastResp.resp.success = "false"
       /\ lastResp.resp.error = "Failed to track event"
       /\ lastResp.resp.event = NoEvent
       /\ lastResp.resp.text = ""
  /\ (httpResp.thrown = NoError /\ lastResp.req.thrown = NoError) =>
       /\ httpResp.resp.status # 500
       /\ httpResp.json.status # 500
       /\ lastResp.resp.status # 500

\* C4 witness: the Pages llms.txt handler answering 500 after getContent threw.
C4_Witness ==
  /\ httpResp.handler = "createLLMsTxtPageHandler"
  /\ httpResp.thrown = "disk full"
  /\ httpResp.resp.status = 500

----------------------------------------------------------------------------
(* Properties of buildNestedTOC *)

\* The item whose children array holds item i, 0 when i is a root.
ParentOf(i) ==
  IF \E n \in 1..Len(result) : result[n] = i THEN 0
  ELSE CHOOSE p \in 1..Len(headings) : \E n \in 1..Len(children[p]) : children[p][n] = i

\* How many times item i is held, in the roots and in the children arrays.
Holders(i) ==
  Cardinality({n \in 1..Len(result) : result[n] = i})
    + Cardinality({pn \in (1..Len(headings)) \X (1..MaxHeadings + 1) :
                     pn[2] <= Len(children[pn[1]]) /\ children[pn[1]][pn[2]] = i})

\* The nearest heading before i whose level is strictly smaller, 0 if none.
NearestSmaller(i) ==
  LET smaller == {j \in 1..(i - 1) : headings[j] < headings[i]}
  IN  IF smaller = {} THEN 0 ELSE CHOOSE j \in smaller : \A k \in smaller : k <= j

\* C5: every heading handled so far is held exactly once, as a child of the
\* nearest preceding heading whose level is strictly smaller than its own
\* and as a root when there is none, whatever the gap between the levels;
\* levels [2,3,3,2,4] give 2 roots, the first with 2 children, the second
\* with 1 child that has no children.
C5_ParentIsNearestSmaller ==
  /\ \A i \in 1..(pos - 1) : Holders(i) = 1 /\ ParentOf(i) = NearestSmaller(i)
  /\ (TocReturned /\ headings = <<2, 3, 3, 2, 4>>) =>
       /\ Len(result) = 2
       /\ Len(children[result[1]]) = 2
       /\ Len(children[result[2]]) = 1
       /\ children[children[result[2]][1]] = <<>>

\* C5 witness: the list [2,3,3,2,4] has been built, its h4 under the second h2.
C5_Witness ==
  /\ TocReturned
  /\ headings = <<2, 3, 3, 2, 4>>
  /\ children[4] = <<5>>

\* The depth-first pre-order walk of a forest given by its roots.
RECURSIVE PreOrder(_)
PreOrder(items) ==
  IF items = <<>> THEN <<>>
  ELSE <<Head(items)>> \o PreOrder(children[Head(items)]) \o PreOrder(Tail(items))

\* C6: the pre-order walk of the forest visits the headings handled so far,
\* each once and in input order; at the return these are all the headings.
C6_PreOrderIsInputOrder ==
  PreOrder(result) = [i \in 1..(pos - 1) |-> i]

\* C6 witness: a returned forest three levels deep whose last heading is a root.
C6_Witness ==
  /\ TocReturned
  /\ headings = <<2, 3, 4, 3, 2>>
  /\ PreOrder(result) = <<1, 2, 3, 4, 5>>
  /\ result = <<1, 5>>

----------------------------------------------------------------------------
(* Properties of the tracker *)

\* The positions of the batch's intersecting entries.
Intersecting(batch) == {n \in 1..Len(batch) : batch[n].isIntersecting}

\* C7: after a notification batch the active id is the id of the batch's
\* last intersecting entry; a batch with no intersecting entry leaves the
\* active id as it was.
C7_LastIntersectingWins ==
  lastOp.kind = "notify" =>
    IF Intersecting(lastOp.batch) = {}
      THEN activeId = lastOp.before[1]
      ELSE \E n \in Intersecting(lastOp.batch) :
             /\ \A m \in Intersecting(lastOp.batch) : m <= n
             /\ activeId = lastOp.batch[n].target

\* C7 witness: a batch of three whose second entry is the last intersecting
\* one, for an anchor other than the first entry's.
C7_Witness ==
  /\ lastOp.kind = "notify"
  /\ Len(lastOp.batch) = 3
  /\ Intersecting(lastOp.batch) = {1, 2}
  /\ lastOp.batch[1].target # lastOp.batch[2].target
  /\ lastOp.batch[3].target = lastOp.batch[1].target
  /\ activeId = lastOp.batch[2].target

\* C8: scrollTo(id) for an id of an element of the document makes id the
\* active id, requests a smooth scroll of that element and pushes #id, all
\* within the call; for an id that matches no element the active id, the
\* scroll requests and the location are left as they were.
C8_ScrollToActivates ==
  lastOp.kind = "scrollTo" =>
    IF lastOp.id \in DocumentIds
      THEN /\ activeId = lastOp.id
           /\ scrolled = Append(lastOp.before[2], [element |-> lastOp.id,
                                                   behavior |-> "smooth", block |-> "start"])
           /\ history = Append(lastOp.before[3], "#" \o lastOp.id)
      ELSE <<activeId, scrolled, history>> = lastOp.before

\* C8 witness: scrollTo for an element that is not a tracked heading, while
\* a heading was active.
C8_Witness ==
  /\ lastOp.kind = "scrollTo"
  /\ lastOp.id = "footer"
  /\ lastOp.before[1] = "intro"
  /\ activeId = "footer"
  /\ history[Len(history)] = "#footer"

----------------------------------------------------------------------------
(* Properties of copyToClipboard and of copy() *)

SettledCalls == {call \in BagToSet(calls) : call.pc = "settled"} \cup {lastCopy.call}

\* C9: copyToClipboard resolves false only when the Clipboard API is
\* unavailable or its write rejected and the fallback then returned false or
\* threw; it resolves true when either mechanism succeeded; the fallback does
\* not run after the write succeeded; the promise never rejects.
C9_FalseOnlyIfBothFail ==
  \A call \in SettledCalls :
    call.pc = "settled" =>
      /\ call.value \in {"true", "false"}
      /\ call.value = "false" <=>
           (call.primary \in {"(unavailable)", "rejected"}
              /\ call.fallback \in {"false", "throws"})
      /\ call.value = "true" <=> (call.primary = "resolved" \/ call.fallback = "true")
      /\ call.primary = "resolved" => call.fallback = "(not run)"

\* C9 witness: the write rejected, the fallback threw, the promise resolved
\* false.
C9_Witness ==
  \E call \in SettledCalls :
    /\ call.pc = "settled"
    /\ call.primary = "rejected"
    /\ call.fallback = "throws"
    /\ call.value = "false"

Count(effects, name) == Cardinality({n \in 1..Len(effects) : effects[n] = name})

\* C10: a copy() call whose copyToClipboard resolved false or rejected
\* resolves false, leaves an error in the error state, invokes onError once
\* (when the page supplies it) and triggers neither onSuccess, nor the
\* analytics callback, nor isSuccess, nor the toast or their timers.
C10_FailedCopyReportsError ==
  (lastCopy.call.pc = "settled" /\ lastCopy.call.value # "true") =>
    /\ lastCopy.result = FALSE
    /\ error # Null
    /\ Count(lastCopy.effects, "onError") = IF "onError" \in props THEN 1 ELSE 0
    /\ \A name \in {"onSuccess", "onCopy", "onAnalytics", "setIsSuccess(true)",
                    "setShowToast(true)"} : Count(lastCopy.effects, name) = 0
    /\ <<isSuccess, showToast, resetTimers, toastTimers>> = lastCopy.before

\* C10 witness: a failed call with onError supplied, settling while the
\* success of an earlier call is still displayed.
C10_Witness ==
  /\ lastCopy.call.pc = "settled"
  /\ lastCopy.call.value = "false"
  /\ lastCopy.result = FALSE
  /\ lastCopy.effects = <<"setError", "onError">>
  /\ error = "Failed to copy to clipboard"
  /\ isSuccess /\ showToast

\* The first position of a line in a document, 0 when it has no such line.
IndexOf(lines, line) ==
  IF \E n \in 1..Len(lines) : lines[n] = line
    THEN CHOOSE n \in 1..Len(lines) : lines[n] = line /\ \A k \in 1..(n - 1) : lines[k] # line
    ELSE 0

\* The lines of a document between its first two '---' lines.
MetadataBlock(lines) ==
  LET open == IndexOf(lines, "---")
      close == open + IndexOf(SubSeq(lines, open + 1, Len(lines)), "---")
  IN  SubSeq(lines, open + 1, close - 1)

\* The metadata fields in their fixed order, each with its line and whether
\* the record carries a value for it (a string that is set and not empty, a
\* list with an element, a number other than 0).
MetadataFields(r) ==
  <<[has |-> TRUE, line |-> "- **Source**: " \o r.url],
    [has |-> r.date \notin {Undef, ""}, line |-> "- **Date**: " \o r.date],
    [has |-> r.modifiedDate \notin {Undef, ""}, line |-> "- **Modified**: " \o r.modifiedDate],
    [has |-> r.author \notin {Undef, ""}, line |-> "- **Author**: " \o r.author],
    [has |-> r.categories # <<>>, line |-> "- **Categories**: " \o JoinComma(r.categories)],
    [has |-> r.tags # <<>>, line |-> "- **Tags**: " \o JoinComma(r.tags)],
    [has |-> r.readingTime # 0,
     line |-> "- **Reading Time**: " \o ToString(r.readingTime) \o " min"]>>

HasField(field) == field.has

\* The response is the markdown of a record the lookup returned.
MarkdownOfRecord ==
  /\ httpResp.handler \in {"createMarkdownHandler", "withLLMParam"}
  /\ httpResp.resp.status = 200

C12_UniqueHeadingIds ==
  \A m, n \in 1..Len(extracted) : m # n => extracted[m].id # extracted[n].id

\* The ids that extractHeadings gives are distinct.
IndexIdsDistinct ==
  extractor = "extractHeadings" =>
    \A m, n \in 1..Len(extracted) : m # n => extracted[m].id # extracted[n].id

\* C13: the slug rule applied to its own output returns that output, for
\* generateSlug and for generateHeadingId, which cuts the slug to 50
\* characters after trimming its hyphens.
C13_SlugIdempotent ==
  \A n \in 1..Len(extracted) :
    /\ extracted[n].rule = "generateSlug" =>
         GenerateSlug(extracted[n].id, n - 1) = extracted[n].id
    /\ extracted[n].rule = "generateHeadingId" =>
         GenerateHeadingId(extracted[n].id, n - 1) = extracted[n].id

\* generateSlug, which does not cut, returns its own output unchanged.
MarkdownSlugIdempotent ==
  \A n \in 1..Len(extracted) :
    extracted[n].rule = "generateSlug" =>
      GenerateSlug(extracted[n].id, n - 1) = extracted[n].id

\* The lines of a converted table that are not its separator rows.
RowLines(lines) ==
  LET NotSeparator(line) == \A k \in 1..(MaxCells + 1) : line # PipeRow([c \in 1..k |-> "---"])
  IN  SelectSeq(lines, NotSeparator)

\* The row the claim puts the separator after: the first row with a th
\* cell, the first row when no row has one.
HeaderRow ==
  IF \E r \in 1..Len(rows) : \E c \in 1..Len(rows[r]) : rows[r][c].tag = "th"
    THEN CHOOSE r \in 1..Len(rows) :
           /\ \E c \in 1..Len(rows[r]) : rows[r][c].tag = "th"
           /\ \A q \in 1..(r - 1) : \A c \in 1..Len(rows[q]) : rows[q][c].tag # "th"
    ELSE 1

\* The rows are written in document order, with one separator row among them.
RowsInOrderOneSeparator ==
  (rowIndex = Len(rows) /\ Len(rows) >= 1) =>
    /\ RowLines(markdown) =
         <<"">> \o [r \in 1..Len(rows) |-> PipeRow([c \in 1..Len(rows[r]) |-> rows[r][c].text])]
    /\ Len(markdown) = Len(rows) + 2

\* C14: a table with at least one row is converted to its rows in document
\* order and exactly one header separator row, which follows the first row
\* that contains a th cell, or the first row when no row contains one.
C14_SeparatorAfterHeaderRow ==
  (rowIndex = Len(rows) /\ Len(rows) >= 1) =>
    /\ RowsInOrderOneSeparator
    /\ markdown[HeaderRow + 2] = PipeRow([c \in 1..Len(rows[HeaderRow]) |-> "---"])

\* The separator row follows the first row, whichever rows have a th cell.
SeparatorAfterFirstRow ==
  (rowIndex = Len(rows) /\ Len(rows) >= 1) =>
    /\ RowsInOrderOneSeparator
    /\ markdown[3] = PipeRow([c \in 1..Len(rows[1]) |-> "---"])

\* The events of the save calls made after the last clear call, in call order.
RECURSIVE SavedSinceClear(_)
SavedSinceClear(log) ==
  IF log = <<>> THEN <<>>
  ELSE LET last == log[Len(log)]
           before == SubSeq(log, 1, Len(log) - 1)
       IN  CASE last.name = "clear" -> <<>>
             [] last.name = "save" -> Append(SavedSinceClear(before), last.event)
             [] OTHER -> SavedSinceClear(before)

\* C15: after any sequence of save, getAll and clear calls on the in-memory
\* storage, getAll returns exactly the events saved since the most recent
\* clear, each once and in save order; save removes and reorders nothing,
\* and clear leaves the log empty.
C15_GetAllIsSavedSinceClear ==
  /\ events = SavedSinceClear(made)
  /\ (made # <<>> /\ made[Len(made)].name = "getAll") => snapshot = SavedSinceClear(made)
  /\ (made # <<>> /\ made[Len(made)].name = "save") =>
       /\ SubSeq(events, 1, Len(events) - 1) =
            SavedSinceClear(SubSeq(made, 1, Len(made) - 1))
       /\ events[Len(events)] = made[Len(made)].event
  /\ (made # <<>> /\ made[Len(made)].name = "clear") => events = <<>>

\* C15 witness: save(view), clear, save(copy), save(copy) and then getAll,
\* which returns the two events saved after the clear.
C15_Witness ==
  /\ Len(made) = 5
  /\ made[1].name = "save" /\ made[1].event.action = "view"
  /\ made[2].name = "clear"
  /\ made[5].name = "getAll"
  /\ Len(snapshot) = 2
  /\ snapshot[1].action = "copy" /\ snapshot[2].action = "copy"

\* C16: every event a POST handler persists has the action copy, view or
\* download, whatever action the request body carries, so the counts of
\* aggregateEvents sum to the number of stored events.
C16_PersistedActionsAreCounted ==
  /\ \A n \in 1..Len(events) : events[n].action \in {"copy", "view", "download"}
  /\ AggregateEvents(events)["copy"] + AggregateEvents(events)["view"]
       + AggregateEvents(events)["download"] = Len(events)

\* The response by method: 204 with the CORS headers for OPTIONS, 405 for a
\* method other than POST and OPTIONS, and 200, 429 or 500 for a POST only.
AnsweredByMethod ==
  /\ lastResp.req.method = "OPTIONS" =>
       /\ lastResp.resp.status = 204
       /\ lastResp.resp.allowOrigin = "*"
       /\ lastResp.resp.allowMethods = "POST, OPTIONS"
       /\ lastResp.resp.allowHeaders = "Content-Type"
       /\ lastResp.resp.text = ""
  /\ lastResp.req.method \notin {"POST", "OPTIONS", "(none)"} =>
       /\ lastResp.resp.status = 405
       /\ lastResp.resp.text = "Method Not Allowed"
  /\ lastResp.resp.status \in {200, 429, 500} => lastResp.req.method = "POST"

\* C17: the analytics handler answers every OPTIONS request with 204 and the
\* CORS headers and every request whose method is neither POST nor OPTIONS
\* with 405; only a POST goes on to the rate limiter and to event handling
\* (the limiter's map, the suspended invocations and the log change in no
\* step that answers another method).
C17_OnlyPostIsHandled ==
  /\ []AnsweredByMethod
  /\ [][lastResp'.req.method \notin {"POST", "(none)"} =>
          UNCHANGED <<requestCounts, inflight, events, nReq, postIdx, admitted>>]_vars

\* C17 witness: a GET answered 405 after a POST was counted by the limiter
\* and suspended, both left as they were.
C17_Witness ==
  /\ lastResp.req.method = "GET"
  /\ lastResp.resp.status = 405
  /\ BagCardinality(inflight) = 1
  /\ requestCounts["unknown"].count = 1

\* The llm parameter of a query is exactly "1": its first pair named llm
\* has the value "1".
LLMIsOne(query) ==
  \E n \in 1..Len(query) :
    /\ query[n] = [name |-> "llm", value |-> "1"]
    /\ \A k \in 1..(n - 1) : query[k].name # "llm"

\* C18: the ?llm=1 middleware acts on a request only when its llm parameter
\* is exactly "1", and then the request gets the markdown handling (200 with
\* the markdown, 404 or 500); for any other value and without the parameter
\* it returns no response and does not call the content lookup; hasLLMParam
\* is true for exactly the requests the middleware acts on.
C18_ActsOnlyOnLLMOne ==
  httpResp.handler = "withLLMParam" =>
    /\ LLMIsOne(httpResp.arg) =>
         /\ httpResp.resp.status \in {200, 404, 500}
         /\ httpResp.lookup # NotCalled
         /\ httpResp.resp.status = 200 =>
              /\ httpResp.resp.contentType = "text/markdown; charset=utf-8"
              /\ httpResp.resp.body[1] \in {"# " \o httpResp.lookup.value.title,
                                            Trim(httpResp.lookup.value.promptPrefix)}
    /\ ~LLMIsOne(httpResp.arg) =>
         /\ httpResp.resp = PassThrough
         /\ httpResp.lookup = NotCalled
    /\ HasLLMParam(httpResp.arg) <=> httpResp.resp # PassThrough

\* C18 witness: a request with ?page=2&llm=1 answered 200 with the markdown
\* of the record the lookup returned.
C18_Witness ==
  /\ httpResp.handler = "withLLMParam"
  /\ Len(httpResp.arg) = 2
  /\ httpResp.arg[1].name = "page"
  /\ HasLLMParam(httpResp.arg)
  /\ httpResp.lookup.kind = "record"
  /\ httpResp.resp.status = 200


----------------------------------------------------------------------------
\* The least whole number of minutes in which `words` words are read at
\* wordsPerMinute words a minute: ceil(words / wordsPerMinute).
LeastMinutes(words, wordsPerMinute) ==
  CHOOSE m \in 0..words :
    /\ m * wordsPerMinute >= words
    /\ \A k \in 0..(m - 1) : k * wordsPerMinute < words

\* The words of a document, line by line.
WordsOfLines(lines) ==
  LET RECURSIVE Sum(_)
      Sum(n) == IF n = 0 THEN 0 ELSE CountWords(lines[n]) + Sum(n - 1)
  IN  Sum(Len(lines))

\* C19: for every text and every positive wordsPerMinute,
\* calculateReadingTime returns the non-negative integer
\* ceil(countWords(text) / wordsPerMinute): 0 exactly when the text has no
\* words, with no floor of one minute, and 2 for 400 words at 200 a minute.
\* The wordCount and readingTime generateMarkdown returns are those of the
\* generated document, readingTime = ceil(wordCount / 200), whatever the
\* record's own readingTime field says.
C19_ReadingTimeIsCeiling ==
  textOutput # NotReturned =>
    /\ textOutput.wordCount \in Nat
    /\ textOutput.readingTime \in Nat
    /\ textInput.fn = "calculateReadingTime" =>
         /\ textOutput.wordCount = textInput.words
         /\ textOutput.readingTime = LeastMinutes(textInput.words, textInput.wordsPerMinute)
         /\ textOutput.readingTime = 0 <=> textInput.words = 0
         /\ textInput.words = 400 /\ textInput.wordsPerMinute = 200 =>
              textOutput.readingTime = 2
    /\ textInput.fn = "generateMarkdown" =>
         /\ textOutput.markdown = GenerateMarkdownString(textInput.content)
         /\ textOutput.wordCount = WordsOfLines(textOutput.markdown)
         /\ textOutput.wordCount > 0
         /\ textOutput.readingTime = LeastMinutes(textOutput.wordCount, 200)

\* 400 words at 200 a minute took 2 minutes.
C19_Witness ==
  /\ textInput.fn = "calculateReadingTime"
  /\ textInput.words = 400 /\ textInput.wordsPerMinute = 200
  /\ textOutput.readingTime = 2

\* A record that says 5 minutes, whose document of fewer than 200 words
\* takes 1, and a document of more than 200 words, which takes 2.
GeneratedTimeIgnoresField ==
  /\ textInput.fn = "generateMarkdown" /\ textInput.content.readingTime = 5
  /\ textOutput.wordCount \in 1..200 /\ textOutput.readingTime = 1
LongDocumentTakesTwo ==
  /\ textInput.fn = "generateMarkdown" /\ textInput.content.readingTime = 1
  /\ textOutput.wordCount > 250 /\ textOutput.readingTime = 2
\* A text of punctuation alone has no words and takes no time.
NoWordsNoTime ==
  /\ textInput.fn = "calculateReadingTime"
  /\ textInput.text # "" /\ textInput.words = 0
  /\ textOutput.readingTime = 0


----------------------------------------------------------------------------
\* The limiter's entry of a key counts every POST of the key's first window,
\* as long as that window's entry is the one in the map, and no more than
\* rateLimit of them got past the limiter.
EveryPostCounted ==
  options.rateLimit # 0 =>
    \A k \in ClientKeys :
      /\ requestCounts[k].present <=> firstPost[k] # -1
      /\ (requestCounts[k].present /\ requestCounts[k].resetAt = firstPost[k] + windowMs) =>
           requestCounts[k].count = postIdx[k]
      /\ admitted[k] <= options.rateLimit
      /\ BagCardinality(inflight) <= nReq

\* A step that receives a POST counts it in one entry: one more than the
\* entry held before the step, or 1 on a new or an expired entry.
PostCountsOnce ==
  (nReq' = nReq + 1 /\ options.rateLimit # 0) =>
    \E k \in ClientKeys :
      /\ requestCounts'[k].count =
           IF requestCounts[k].present /\ now <= requestCounts[k].resetAt
             THEN requestCounts[k].count + 1 ELSE 1
      /\ \A j \in ClientKeys \ {k} : requestCounts'[j] = requestCounts[j]

\* C20: when several POSTs of one client key are in flight and interleave at
\* their awaits (request.json(), storage.save), each request's read, reset,
\* increment and write-back of the limiter's entry is one step: the steps
\* taken at the awaits leave the map alone, no increment is lost, and at
\* most rateLimit requests of a window get past the limiter.
C20_LimiterStepIsAtomic ==
  /\ []EveryPostCounted
  /\ [][PostCountsOnce]_vars
  /\ [][nReq' = nReq => requestCounts' = requestCounts]_vars

\* With a limit of 1: the first POST of a key is suspended at storage.save
\* when the second of the same key arrives, is counted as the second and
\* gets 429.
C20_Witness ==
  /\ options.rateLimit = 1
  /\ \E k \in ClientKeys : requestCounts[k].count = 2 /\ postIdx[k] = 2 /\ admitted[k] = 1
  /\ \E inv \in BagToSet(inflight) : inv.pc = "save"
  /\ lastResp.resp.status = 429

\* With a limit of 2: two POSTs of one key are in flight at once, one at
\* each await, and both were counted.
BothInFlightCounted ==
  /\ options.rateLimit = 2
  /\ \E k \in ClientKeys : requestCounts[k].count = 2 /\ admitted[k] = 2
  /\ \E a, b \in BagToSet(inflight) : a.pc = "save" /\ b.pc = "json"


----------------------------------------------------------------------------
\* A step that receives a POST of a key that has an entry: strictly after
\* the entry's reset timestamp the entry restarts at 1 with a reset timestamp
\* 60 seconds after the arrival and the request is let through; at or
\* before the reset timestamp the entry keeps its timestamp and counts on.
RestartsOnlyAfterReset ==
  (nReq' = nReq + 1 /\ options.rateLimit # 0) =>
    /\ \E k \in ClientKeys : requestCounts'[k] # requestCounts[k]
    /\ \A k \in ClientKeys :
         (requestCounts'[k] # requestCounts[k] /\ requestCounts[k].present) =>
           IF now > requestCounts[k].resetAt
             THEN /\ requestCounts'[k].count = 1
                  /\ requestCounts'[k].resetAt = now + 60000
                  /\ admittedAt'[k] = Append(admittedAt[k], now)
                  /\ lastResp'.resp.status # 429
                  /\ BagCardinality(inflight') = BagCardinality(inflight) + 1
             ELSE /\ requestCounts'[k].count = requestCounts[k].count + 1
                  /\ requestCounts'[k].resetAt = requestCounts[k].resetAt

\* C21: a POST of a client key that arrives strictly later than the key's
\* stored reset timestamp restarts the key's counter: it counts as the first
\* request of a new window whose reset timestamp is its arrival time plus 60
\* seconds, so a client that was getting 429 is let through again; a POST
\* that arrives at or before the reset timestamp never resets the counter.
C21_CounterRestartsAfterReset == [][RestartsOnlyAfterReset]_vars

\* With a limit of 1, a key whose second POST got 429 in its first window
\* has just been let through again, as the first request of a new window.
C21_Witness ==
  /\ options.rateLimit = 1
  /\ \E k \in ClientKeys :
       /\ postIdx[k] = 2 /\ admitted[k] = 1
       /\ now > firstPost[k] + 60000
       /\ requestCounts[k] = [present |-> TRUE, count |-> 1, resetAt |-> now + 60000]
       /\ admittedAt[k] = <<firstPost[k], now>>

\* A POST at the reset timestamp itself was counted on, and got 429.
CountedOnAtResetTimestamp ==
  /\ options.rateLimit = 1
  /\ \E k \in ClientKeys :
       /\ requestCounts[k].present /\ now = requestCounts[k].resetAt
       /\ requestCounts[k].count = 2
  /\ lastResp.resp.status = 429


----------------------------------------------------------------------------
\* C24 (as claimed): with rateLimit = N no client key has more than N POSTs
\* let through the limiter in any span of 60 seconds, wherever the span
\* starts, spans that straddle a reset of the counter included.
C24_SlidingMinuteBound ==
  options.rateLimit # 0 =>
    \A k \in ClientKeys : \A i \in 1..Len(admittedAt[k]) :
      Cardinality({j \in 1..Len(admittedAt[k]) :
                     /\ admittedAt[k][j] >= admittedAt[k][i]
                     /\ admittedAt[k][j] < admittedAt[k][i] + 60000}) <= options.rateLimit

\* What the counter does bound: the POSTs let through between two resets,
\* that is those that arrived no later than the reset timestamp of the
\* entry now in the map and no earlier than 60 seconds before it.
FixedWindowBound ==
  options.rateLimit # 0 =>
    \A k \in ClientKeys :
      requestCounts[k].present =>
        Cardinality({j \in 1..Len(admittedAt[k]) :
                       /\ admittedAt[k][j] <= requestCounts[k].resetAt
                       /\ admittedAt[k][j] >= requestCounts[k].resetAt - 60000})
          <= options.rateLimit


----------------------------------------------------------------------------
\* A POST step whose count goes beyond the limit.
OverLimit ==
  /\ nReq' = nReq + 1 /\ options.rateLimit # 0
  /\ \E k \in ClientKeys : /\ requestCounts'[k] # requestCounts[k]
                           /\ requestCounts'[k].count > options.rateLimit

\* A step that answers 204, 405 or 429 leaves the log alone, and one that
\* answers 204 or 405 the limiter's map too; a POST counted beyond the limit
\* is answered 429 and is not suspended, so it never reaches storage.save:
\* an invocation is suspended only by a POST within the limit, and the log
\* changes by one appended event, in a step that resumes an invocation
\* suspended at request.json().
OnlyAdmittedPostsSave ==
  /\ lastResp'.resp.status \in {204, 405, 429} => events' = events
  /\ lastResp'.resp.status \in {204, 405} => requestCounts' = requestCounts
  /\ OverLimit => lastResp'.resp.status = 429 /\ inflight' = inflight /\ events' = events
  /\ BagCardinality(inflight') > BagCardinality(inflight) => nReq' = nReq + 1 /\ ~OverLimit
  /\ events' # events =>
       /\ \E inv \in BagToSet(inflight) :
            inv.pc = "json" /\ CopiesIn(inv, inflight') = CopiesIn(inv, inflight) - 1
       /\ Len(events') = Len(events) + 1
       /\ SubSeq(events', 1, Len(events)) = events
       /\ nReq' = nReq

\* C29: the analytics handler calls storage.save only for a POST that passed
\* the rate limiter: OPTIONS requests, requests refused with 405 and POSTs
\* refused with 429 leave the storage log unchanged, and OPTIONS and 405
\* requests leave every client's rate-limit counter unchanged as well.
C29_SaveOnlyPastLimiter == [](Len(events) <= nReq) /\ [][OnlyAdmittedPostsSave]_vars

\* A POST has been refused with 429 while the log holds the event of the
\* POST that was let through before it.
C29_Witness ==
  /\ options.rateLimit = 1
  /\ lastResp.resp.status = 429
  /\ Len(events) = 1
  /\ nReq = 2 /\ \E k \in ClientKeys : postIdx[k] = 2 /\ admitted[k] = 1


----------------------------------------------------------------------------
\* What createAnalyticsPageHandler answers to the request the App Router
\* handler has just answered: the same method and parsed body, with
\* storage.save rejecting when it rejected there.  A body that does not parse
\* never reaches a Pages Router handler, which is handed req.body parsed.
PageAnswer ==
  AnalyticsPageHandler(lastResp.req.method, lastResp.req.body,
                       IF lastResp.req.thrown \in Errors THEN lastResp.req.thrown ELSE NoError,
                       lastResp.req.stampedAt)
Comparable == lastResp.req.method # "(none)" /\ lastResp.req.body.kind # "malformed"

\* C25 (as claimed): for the same options and the same requests the Pages
\* Router handler returns the status codes of the App Router handler and
\* persists the same events; in particular it answers 429 where the
\* configured rateLimit is exceeded.  Stated for the POSTs whose body is an
\* object, which is where the limiter decides.
C25_PageHandlerAgrees ==
  (Comparable /\ lastResp.req.method = "POST" /\ lastResp.req.body.kind = "object") =>
    /\ PageAnswer.status = lastResp.resp.status
    /\ (PageAnswer.status = 200) <=> (lastResp.req.appended = 1)

\* Where the two agree: requests other than OPTIONS that the limiter lets
\* through and whose body is an object.
AgreeOnAdmittedObjects ==
  (Comparable /\ lastResp.req.method # "OPTIONS" /\ lastResp.resp.status # 429
     /\ lastResp.req.body.kind = "object") =>
    /\ PageAnswer.status = lastResp.resp.status
    /\ (PageAnswer.status = 200) <=> (lastResp.req.appended = 1)
    /\ PageAnswer.event = lastResp.resp.event

\* The two also differ on a preflight and on a POST whose body is null:
\* 204 against 405, and the TypeError's 500 against 200 (body?.action).
DifferOnOptions ==
  lastResp.req.method = "OPTIONS" /\ lastResp.resp.status = 204 /\ PageAnswer.status = 405
DifferOnNullBody ==
  lastResp.req.body.kind = "null" /\ lastResp.resp.status = 500 /\ PageAnswer.status = 200

\* The Pages Router handler never answers 429.
PageNeverLimits == httpResp.handler = "createAnalyticsPageHandler" => httpResp.json.status # 429


----------------------------------------------------------------------------
\* C26 (as claimed): for every content record the Markdown the copy hook
\* builds for copy, view and download (generateMarkdownFromContent) equals
\* the markdown field generateMarkdown returns for the same record: the same
\* metadata lines and the same decision whether the body is HTML.
C26_HookMarkdownIsServerMarkdown ==
  (textInput.fn = "useLLMCopy" /\ textOutput # NotReturned) =>
    textOutput.markdown = GenerateMarkdown(textInput.content).markdown

\* The two agree on a record without modified date and reading time, and
\* otherwise the hook's document is the server's without those two lines.
HookOmitsTwoLines ==
  (textInput.fn = "useLLMCopy" /\ textOutput # NotReturned) =>
    textOutput.markdown =
      SelectSeq(GenerateMarkdown(textInput.content).markdown,
                LAMBDA line :
                  /\ Len(line) >= 16 => SubSeq(line, 1, 16) # "- **Modified**: "
                  /\ Len(line) >= 20 => SubSeq(line, 1, 20) # "- **Reading Time**: ")


----------------------------------------------------------------------------
\* C27 (as claimed): isCopying is true whenever at least one copy() call has
\* started and not yet settled, and false once all have settled, also when a
\* second copy() is started while an earlier one awaits the clipboard; and
\* the isSuccess set by a later successful copy is not cleared by the
\* 2-second timer of an earlier one: it is true as long as a timer set by a
\* success is pending.
C27_FlagsFollowCalls ==
  /\ isCopying <=> calls # EmptyBag
  /\ resetTimers > 0 => isSuccess

\* What holds as long as copy() calls do not overlap: with at most one call
\* made, and with no timer of an earlier success pending, the flags follow it.
FlagsFollowSingleCall ==
  nCopies <= 1 => C27_FlagsFollowCalls

\* The two ways it fails: a call is still awaiting the clipboard after the
\* finally block of another cleared isCopying; the timer of a first success
\* cleared isSuccess while that of a second is pending.
ClearedWhileCopying == ~isCopying /\ \E call \in BagToSet(calls) : call.pc = "write"
ClearedByEarlierTimer == ~isSuccess /\ resetTimers = 1 /\ nCopies = 2 /\ calls = EmptyBag


----------------------------------------------------------------------------
(* C22: across any changes of the headings, the container or the observer  *)
(* options, followed by unmount, useTOC disconnects the observer it has    *)
(* before it creates the next one: at most one observer is connected at    *)
(* any time, an observer is created only when none is connected, and none  *)
(* is connected after unmount.                                             *)
C22_OneObserverAtATime ==
  /\ [](Len(observers) <= 1 /\ (phase = "unmounted" => observers = <<>>))
  /\ [][Len(observers') > Len(observers) => observers = <<>> /\ lastOp'.kind = "subscribe"]_vars

\* unmounted after a render that had headings, for which an observer was
\* created, and with other headings in the state than that render had: the
\* observer was disconnected.
C22_Witness ==
  /\ phase = "unmounted"
  /\ rendered # {}
  /\ tracked # rendered
  /\ observers = <<>>

\* An observer is connected exactly when the last commit that ran the
\* observer effect had headings.
ObserverFollowsHeadings ==
  phase = "idle" => (observers # <<>> <=> rendered # {})

(* C28: with the content of the container unchanged and the caller         *)
(* rendering with no levels or the same levels, useTOC comes to rest:      *)
(* from some render on it extracts no headings, sets no headings state and *)
(* disconnects and creates no observer.                                    *)
C28_UseTOCComesToRest ==
  [](lastOp.kind # "props")
    => <>[][lastOp'.kind \notin {"extract", "disconnect", "subscribe"}]_trackerVars

\* With the caller passing the same levels array in every render it does.
MemoizedComesToRest ==
  [](lastOp.kind # "props" /\ caller = "memoized")
    => <>[][lastOp'.kind \notin {"extract", "disconnect", "subscribe"}]_trackerVars

\* With no levels passed, every render is followed by an extraction.
DefaultExtractsInEveryCommit ==
  caller = "default" /\ phase = "observe" => "extract" \in due

(* C30: after any notifications, scrollTo calls and changes of the         *)
(* headings, activeId is null or the id of one of the headings in the      *)
(* headings state.                                                         *)
C30_ActiveIdIsTracked ==
  activeId = Null \/ activeId \in tracked

\* The id a notification makes active is the id of one of them.
NotifiedIdIsTracked ==
  [][lastOp'.kind = "notify" /\ activeId' # activeId => activeId' \in tracked]_vars

\* scrollTo with the id of an element that is no heading.
ActiveIdOfOtherElement ==
  ~(activeId \in DocumentIds \ HeadingIds)

\* A heading that was active and is no longer in the headings state.
ActiveIdOfFormerHeading ==
  ~(scrolled = <<>> /\ activeId \in HeadingIds \ tracked /\ phase = "idle")


(* C23: a call of track is dropped without sending exactly when a call     *)
(* with the same key (action, content id, millisecond of the call) is      *)
(* under way; every other call hands its event to the transport; when a    *)
(* call ends, with the fetch resolved or rejected, its key is deleted, so  *)
(* the set holds the keys of the calls under way and is empty when none    *)
(* is; the promise of track is never rejected.                             *)
TrackDropsOnlyDuplicates ==
  nTracks' # nTracks =>
    /\ lastTrack'.outcome = "dropped" <=> (\E call \in fetching : call.key = lastTrack'.key)
    /\ lastTrack'.outcome = "dropped" => delivered' = delivered /\ fetching' = fetching
    /\ lastTrack'.outcome # "dropped" => delivered' = Append(delivered, lastTrack'.event)

C23_TrackDropsOnlyDuplicates ==
  /\ [](/\ pendingRef = {call.key : call \in fetching}
        /\ lastTrack.promise # "rejected"
        /\ (lastTrack.promise = "pending" <=> lastTrack.outcome = "sent" /\ ~sendBeacon))
  /\ [][TrackDropsOnlyDuplicates]_vars
  /\ [][\A call \in fetching \ fetching' : call.key \notin pendingRef']_vars

\* Three calls with one event: one was dropped for a call of its
\* millisecond under way, two were sent; the fetch of one of these has
\* failed, and the set holds the key of the other alone.
C23_Witness ==
  /\ nTracks = 3
  /\ Len(delivered) = 2
  /\ delivered[1] = delivered[2]
  /\ lastTrack.outcome = "settled"
  /\ lastTrack.logged # NoError
  /\ fetching # {}
  /\ Cardinality(pendingRef) = 1

\* With sendBeacon no call is under way between two calls and none is
\* dropped.
BeaconNeverDrops ==
  sendBeacon => pendingRef = {} /\ Len(delivered) = nTracks

\* An event with contentId '' and one with none have the same key.
EmptyContentIdIsNoContentId ==
  lastTrack.outcome = "dropped" /\ lastTrack.event.contentId = ""
    => \E call \in fetching : call.event.contentId \in {"", "(undefined)"}

====
